---- MODULE Spec2Model ----
(***************************************************************************)
(* Verification model of the tax-lien extraction pipeline:                 *)
(*   - src/src/lib/utils/pdfParse.ts        three-tier PDF text extraction *)
(*   - src/src/lib/scrapers/BaseScraper.ts  persistence and normalisers    *)
(*   - src/src/lib/scrapers/*Scraper.ts     per-county orchestrators       *)
(*   - src/unnamed/part_015                 RealEstateService lookups      *)
(* Texts are sequences of one-character strings.                           *)
(***************************************************************************)
EXTENDS Integers, Sequences, FiniteSets, TLC

VARIABLES
    \* ---- parsePdf (pdfParse.ts) ----
    env,          \* process.env: VERCEL and AWS_LAMBDA_FUNCTION_NAME
    pdfPc,        \* position inside parsePdf
    attempts,     \* tiers invoked so far by the current parsePdf call, in order
    tierInput,    \* what each invoked tier's library produced for the buffer
    tierResult,   \* outcome of each invoked tier (resolved text / rejection)
    pdfResult,    \* what parsePdf returned or threw
    \* ---- one scraper instance and its scrape() calls ----
    scraper,      \* the constructed scraper: county, enableEnrichment, realEstateService
    runPc,        \* position inside scrape() / saveToDatabase()
    runs,         \* calls started so far; the clock that stamps scraped_at
    stages,       \* pipeline stages the current scrape() has entered, in order
    docsLeft,     \* PDF links of the page not yet processed
    docLog,       \* outcome of every PDF link processed by the current scrape()
    liens,        \* scrape(): const liens
    lookups,      \* enrichAndFilterLiens: lookup result of liens[i], in order
    keptIdx,      \* enrichAndFilterLiens: indices of the liens pushed to validLiens
    validLiens,   \* scrape(): validLiens
    delayed,      \* enrichAndFilterLiens: the setTimeout before the next lookup has elapsed
    logData,      \* saveToDatabase: index of the scrape log row, 0 for null
    upserts,      \* tax_liens upsert requests issued by saveToDatabase
    saveOutcome,  \* how the current saveToDatabase call ended
    enrichQueue,  \* enrichSavedLiens: parcel ids still to be enriched
    tax_liens,    \* table tax_liens
    scrape_logs,  \* table scrape_logs
    runResult,    \* how the current scrape() settled
    calls,        \* the awaited calls of the current scrape(): issued, settled, and the delays
    \* ---- row extraction (the scrapers' parsers) ----
    source,       \* the extractor at work
    rowsIn,       \* the rows of the published list given to it
    rowsOut,      \* what it made of them: a record, or nothing, per row or match
    extractPc,    \* position of the extraction
    \* ---- ScrapingService.scrapeAllCounties ----
    svcPc,        \* position inside scrapeAllCounties
    svcAt,        \* index in this.scrapers of the loop at work
    scraping,     \* counties whose scrape() is issued and not settled
    attempted,    \* counties whose scrape() was called, in call order
    results,      \* scrapeAllCounties: const results
    svcResult,    \* how scrapeAllCounties settled
    \* ---- the text normalisers on their own ----
    fn,           \* the function at work
    arg,          \* the text it is given
    returned,     \* what it returned, and what it returned for that
    \* ---- FultonScraper.parsePdf on the lines of one document ----
    docLines,       \* parsePdf: const lines
    docPc,          \* position inside parsePdf
    lineAt,         \* the loop variable i of the loop at work
    headerIndices,  \* parsePdf: const headerIndices
    headerIdx,      \* the section at work
    rowLog,         \* every text given to a row parser: by which loop, at which line
    pdfLiens,       \* parsePdf: const liens
    currentRecord,  \* the scan's buffer of lines accumulated for one record
    seenParcelIds   \* the scan's set of parcel ids pushed

pdfVars == <<env, pdfPc, attempts, tierInput, tierResult, pdfResult>>

runVars == <<scraper, runPc, runs, stages, docsLeft, docLog, liens, lookups, keptIdx,
             validLiens, delayed, logData, upserts, saveOutcome, enrichQueue,
             tax_liens, scrape_logs, runResult, calls>>

extractVars == <<source, rowsIn, rowsOut, extractPc>>

svcVars == <<svcPc, svcAt, scraping, attempted, results, svcResult>>

textVars == <<fn, arg, returned>>

docVars == <<docLines, docPc, lineAt, headerIndices, headerIdx, rowLog, pdfLiens,
             currentRecord, seenParcelIds>>

\* what the actions of one part leave alone
outsidePdf == <<runVars, extractVars, svcVars, textVars, docVars>>
outsideRun == <<pdfVars, extractVars, svcVars, textVars, docVars>>
outsideExtract == <<pdfVars, runVars, svcVars, textVars, docVars>>
outsideSvc == <<pdfVars, runVars, extractVars, textVars, docVars>>
outsideText == <<pdfVars, runVars, extractVars, svcVars, docVars>>
outsideDoc == <<pdfVars, runVars, extractVars, svcVars, textVars>>

vars == <<env, pdfPc, attempts, tierInput, tierResult, pdfResult,
          scraper, runPc, runs, stages, docsLeft, docLog, liens, lookups, keptIdx,
          validLiens, delayed, logData, upserts, saveOutcome, enrichQueue,
          tax_liens, scrape_logs, runResult, calls, source, rowsIn, rowsOut, extractPc,
          svcPc, svcAt, scraping, attempted, results, svcResult, fn, arg, returned,
          docLines, docPc, lineAt, headerIndices, headerIdx, rowLog, pdfLiens,
          currentRecord, seenParcelIds>>

(***************************************************************************)
(* Bounds                                                                  *)
(***************************************************************************)
MaxTextLen == 2      \* longest raw text a text-layer tier is fed
MaxPages == 2        \* most pages handed to the OCR tier
MaxRuns == 2         \* saveToDatabase calls made against one database
MaxDocs == 2         \* PDF links found on a county page
MaxLiens == 2        \* candidate records extracted by one scrape()

(***************************************************************************)
(* Text helpers (JavaScript String / RegExp semantics)                     *)
(***************************************************************************)
Range(s) == {s[i] : i \in 1..Len(s)}

\* \s of a JavaScript regular expression, restricted to the modelled alphabet
IsWs(c) == c \in {" ", "\n", "\t", "\r"}

SeqsUpTo(S, n) == UNION {[1..k -> S] : k \in 0..n}

\* String.prototype.trim
RECURSIVE TrimLeft(_)
TrimLeft(s) == IF s # <<>> /\ IsWs(Head(s)) THEN TrimLeft(Tail(s)) ELSE s

RECURSIVE TrimRight(_)
TrimRight(s) ==
    IF s # <<>> /\ IsWs(s[Len(s)]) THEN TrimRight(SubSeq(s, 1, Len(s) - 1)) ELSE s

Trim(s) == TrimRight(TrimLeft(s))

\* s.replace(/\s+/g, " ")
RECURSIVE CollapseAllWs(_)
CollapseAllWs(s) ==
    IF s = <<>> THEN <<>>
    ELSE IF IsWs(Head(s))
         THEN <<" ">> \o CollapseAllWs(TrimLeft(s))
         ELSE <<Head(s)>> \o CollapseAllWs(Tail(s))

\* length of the longest prefix of s made of whitespace
RECURSIVE WsPrefixLen(_)
WsPrefixLen(s) == IF s # <<>> /\ IsWs(Head(s)) THEN 1 + WsPrefixLen(Tail(s)) ELSE 0

\* s.replace(/\n\s*\n/g, "\n"): leftmost match, \s* greedy with backtracking
\* to the last newline of the whitespace run that follows the first newline
RECURSIVE LastNewlineIn(_, _)
LastNewlineIn(s, n) ==
    IF n = 0 THEN 0 ELSE IF s[n] = "\n" THEN n ELSE LastNewlineIn(s, n - 1)

RECURSIVE RemoveEmptyLines(_)
RemoveEmptyLines(s) ==
    IF s = <<>> THEN <<>>
    ELSE IF Head(s) = "\n"
         THEN LET rest == Tail(s)
                  k == LastNewlineIn(rest, WsPrefixLen(rest))
              IN IF k > 0
                 THEN <<"\n">> \o RemoveEmptyLines(SubSeq(rest, k + 1, Len(rest)))
                 ELSE <<"\n">> \o RemoveEmptyLines(rest)
         ELSE <<Head(s)>> \o RemoveEmptyLines(Tail(s))

RECURSIVE Concat(_)
Concat(ss) == IF ss = <<>> THEN <<>> ELSE Head(ss) \o Concat(Tail(ss))

(***************************************************************************)
(* pdfParse.ts                                                             *)
(***************************************************************************)
TextChars == {"a", " ", "\n"}
RawTexts == SeqsUpTo(TextChars, MaxTextLen)

\* process.env values: an unset variable is undefined, a platform-set one is
\* a non-empty string
EnvValues == {"undefined", "1"}
Envs == [VERCEL : EnvValues, AWS_LAMBDA_FUNCTION_NAME : EnvValues]

\* a runtime test that looks at VERCEL alone
isServerless_VercelOnly(e) == e.VERCEL # "undefined"

\* const isServerless = process.env.VERCEL || process.env.AWS_LAMBDA_FUNCTION_NAME
isServerless(e) == e.VERCEL # "undefined" \/ e.AWS_LAMBDA_FUNCTION_NAME # "undefined"

Resolved(t) == [ok |-> TRUE, text |-> t, message |-> <<>>]
Rejected(m) == [ok |-> FALSE, text |-> <<>>, message |-> m]

\* What pdf2json does with the buffer: it emits pdfParser_dataError, or
\* parseBuffer throws, or it emits pdfParser_dataReady with a page tree whose
\* text runs concatenate to `walk` and whose raw JSON holds the quoted "T"
\* values `salvage` (each value non-empty, as /"T"\s*:\s*"([^"]+)"/ requires).
SalvageValues == {<<"a">>, <<" ">>, <<"\n">>}
\* a page tree whose text runs hold two words with a line break between them
TwoLineText == <<"a", "\n", "a">>
Pdf2jsonEvents ==
    [kind : {"dataError", "parseBufferThrows"}, walk : {<<>>}, salvage : {<<>>}]
    \cup [kind : {"dataReady"}, walk : RawTexts \cup {TwoLineText},
          salvage : SeqsUpTo(SalvageValues, 1)]

\* a cleaning without the first replace: line breaks between words stay
CleanPdf2jsonText_KeepsLineBreaks(fullText) == Trim(RemoveEmptyLines(fullText))

\* fullText.replace(/\s+/g, " ").replace(/\n\s*\n/g, "\n").trim()
CleanPdf2jsonText(fullText) == Trim(RemoveEmptyLines(CollapseAllWs(fullText)))

\* the salvage loop: fullText += textValue + " " for every matched value
RECURSIVE AppendSalvage(_, _)
AppendSalvage(fullText, values) ==
    IF values = <<>> THEN fullText
    ELSE AppendSalvage(fullText \o Head(values) \o <<" ">>, Tail(values))

parsePdfWithPdf2json(ev) ==
    IF ev.kind = "dataError" THEN Rejected(<<"PDF parsing failed: ", "pdf2json-parserError">>)
    ELSE IF ev.kind = "parseBufferThrows"
    THEN Rejected(<<"Failed to parse PDF buffer: ", "pdf2json-exception">>)
    ELSE LET cleanedText == CleanPdf2jsonText(ev.walk)
         IN IF Len(cleanedText) = 0
            THEN LET recleaned ==
                        IF Len(ev.salvage) > 0
                        THEN CleanPdf2jsonText(AppendSalvage(ev.walk, ev.salvage))
                        ELSE cleanedText
                 IN IF Len(recleaned) = 0
                    THEN Rejected(<<"No text extracted from PDF - may be image-based (scanned PDF)">>)
                    ELSE Resolved(recleaned)
            ELSE Resolved(cleanedText)

\* What pdf-parse does with the buffer: the module exports no function, or the
\* call throws, or it resolves with result.text (possibly undefined).
PdfParseEvents ==
    [kind : {"noFunction", "throws"}, text : {<<>>}]
    \cup [kind : {"result"}, text : RawTexts]

\* a pdf-parse tier without the `text.length === 0` check
parsePdfWithPdfParse_NoLengthCheck(ev) ==
    IF ev.kind = "noFunction"
    THEN Rejected(<<"pdf-parse failed: ", "pdf-parse function not found in module">>)
    ELSE IF ev.kind = "throws"
    THEN Rejected(<<"pdf-parse failed: ", "pdf-parse-exception">>)
    ELSE Resolved(ev.text)

parsePdfWithPdfParse(ev) ==
    IF ev.kind = "noFunction"
    THEN Rejected(<<"pdf-parse failed: ", "pdf-parse function not found in module">>)
    ELSE IF ev.kind = "throws"
    THEN Rejected(<<"pdf-parse failed: ", "pdf-parse-exception">>)
    ELSE IF Len(ev.text) = 0
    THEN Rejected(<<"pdf-parse failed: ", "pdf-parse extracted no text - may be image-based">>)
    ELSE Resolved(ev.text)

\* What the OCR stack does: loading / rendering / recognising throws, or
\* every page is recognised and yields a text.
PageTexts == {<<>>, <<"a">>, <<" ">>}
OcrEvents ==
    [kind : {"throws"}, pages : {<<>>}]
    \cup [kind : {"recognized"}, pages : SeqsUpTo(PageTexts, MaxPages)]

\* fullText += text + "\n" for every page
RECURSIVE OcrFullText(_)
OcrFullText(pages) ==
    IF pages = <<>> THEN <<>> ELSE Head(pages) \o <<"\n">> \o OcrFullText(Tail(pages))

parsePdfWithOCR(ev) ==
    IF ev.kind = "throws" THEN Rejected(<<"ocr-exception">>)
    ELSE LET fullText == OcrFullText(ev.pages)
         IN IF Len(Trim(fullText)) = 0
            THEN Rejected(<<"OCR extracted no text from the PDF">>)
            ELSE Resolved(fullText)

Tiers == <<"pdf2json", "pdf-parse", "ocr">>
NoResult == [ok |-> FALSE, text |-> <<>>, message |-> <<"not attempted">>]
NoInput == [kind |-> "none"]

PdfFresh ==
    /\ env \in Envs
    /\ pdfPc = "idle"
    /\ attempts = <<>>
    /\ tierInput = [t \in Range(Tiers) |-> NoInput]
    /\ tierResult = [t \in Range(Tiers) |-> NoResult]
    /\ pdfResult = [status |-> "none", text |-> <<>>, message |-> <<>>]

\* parsePdf is called with a buffer
parsePdfCall ==
    /\ pdfPc \in {"idle", "done"}
    /\ pdfPc' = "try_pdf2json"
    /\ attempts' = <<>>
    /\ tierInput' = [t \in Range(Tiers) |-> NoInput]
    /\ tierResult' = [t \in Range(Tiers) |-> NoResult]
    /\ pdfResult' = [status |-> "none", text |-> <<>>, message |-> <<>>]
    /\ UNCHANGED env
    /\ UNCHANGED outsidePdf

\* a parsePdf that would go on to pdf-parse although pdf2json returned a text
TryPdf2json_FallsThrough(ev) ==
    /\ pdfPc = "try_pdf2json"
    /\ LET r == parsePdfWithPdf2json(ev)
       IN /\ attempts' = Append(attempts, "pdf2json")
          /\ tierInput' = [tierInput EXCEPT !["pdf2json"] = ev]
          /\ tierResult' = [tierResult EXCEPT !["pdf2json"] = r]
          /\ pdfPc' = "try_pdfparse"
          /\ UNCHANGED pdfResult
    /\ UNCHANGED env
    /\ UNCHANGED outsidePdf

\* lines 12-15: return await parsePdfWithPdf2json(buffer), or catch (error)
TryPdf2json(ev) ==
    /\ pdfPc = "try_pdf2json"
    /\ LET r == parsePdfWithPdf2json(ev)
       IN /\ attempts' = Append(attempts, "pdf2json")
          /\ tierInput' = [tierInput EXCEPT !["pdf2json"] = ev]
          /\ tierResult' = [tierResult EXCEPT !["pdf2json"] = r]
          /\ IF r.ok
             THEN /\ pdfResult' = [status |-> "returned", text |-> r.text, message |-> <<>>]
                  /\ pdfPc' = "done"
             ELSE /\ pdfPc' = "try_pdfparse"
                  /\ UNCHANGED pdfResult
    /\ UNCHANGED env
    /\ UNCHANGED outsidePdf

\* lines 17-20: return await parsePdfWithPdfParse(buffer), or catch (fallbackError)
TryPdfParse(ev) ==
    /\ pdfPc = "try_pdfparse"
    /\ LET r == parsePdfWithPdfParse(ev)
       IN /\ attempts' = Append(attempts, "pdf-parse")
          /\ tierInput' = [tierInput EXCEPT !["pdf-parse"] = ev]
          /\ tierResult' = [tierResult EXCEPT !["pdf-parse"] = r]
          /\ IF r.ok
             THEN /\ pdfResult' = [status |-> "returned", text |-> r.text, message |-> <<>>]
                  /\ pdfPc' = "done"
             ELSE /\ pdfPc' = "ocr_gate"
                  /\ UNCHANGED pdfResult
    /\ UNCHANGED env
    /\ UNCHANGED outsidePdf

\* lines 23 and 39-45: if (!isServerless) ... else throw
OcrGate ==
    /\ pdfPc = "ocr_gate"
    /\ IF ~isServerless(env)
       THEN /\ pdfPc' = "try_ocr"
            /\ UNCHANGED pdfResult
       ELSE /\ pdfPc' = "done"
            /\ pdfResult' =
                 [status |-> "threw", text |-> <<>>,
                  message |-> <<"PDF parsing failed: ">>
                              \o tierResult["pdf2json"].message
                              \o <<". OCR not available in serverless environment.">>]
    /\ UNCHANGED <<env, attempts, tierInput, tierResult>>
    /\ UNCHANGED outsidePdf

\* lines 27-37: return await parsePdfWithOCR(buffer), or catch (ocrError) and throw
TryOCR(ev) ==
    /\ pdfPc = "try_ocr"
    /\ LET r == parsePdfWithOCR(ev)
       IN /\ attempts' = Append(attempts, "ocr")
          /\ tierInput' = [tierInput EXCEPT !["ocr"] = ev]
          /\ tierResult' = [tierResult EXCEPT !["ocr"] = r]
          /\ pdfPc' = "done"
          /\ IF r.ok
             THEN pdfResult' = [status |-> "returned", text |-> r.text, message |-> <<>>]
             ELSE pdfResult' =
                    [status |-> "threw", text |-> <<>>,
                     message |-> <<"PDF parsing failed: ">>
                                 \o tierResult["pdf2json"].message
                                 \o <<". OCR also failed.">>]
    /\ UNCHANGED env
    /\ UNCHANGED outsidePdf

PdfNext ==
    \/ parsePdfCall
    \/ \E ev \in Pdf2jsonEvents : TryPdf2json(ev)
    \/ \E ev \in PdfParseEvents : TryPdfParse(ev)
    \/ OcrGate
    \/ \E ev \in OcrEvents : TryOCR(ev)


(***************************************************************************)
(* RealEstateService (src/unnamed/part_015)                                *)
(***************************************************************************)
\* value of an improvement-value field of the returned property object
FieldValues == {"undefined", "num:0", "str:0", "num:5000"}
PropertyData == [assessedImprovementValue : FieldValues,
                 assessed_improvement_value : FieldValues]
NoProperty == [assessedImprovementValue |-> "undefined",
               assessed_improvement_value |-> "undefined"]

\* outcome of one axios.post to /PropertySearch
ApiResponses ==
    [kind : {"empty", "http404", "httpError"}, data : {NoProperty}]
    \cup [kind : {"data"}, data : PropertyData]

\* a ?? b
Nullish(a, b) == IF a = "undefined" THEN b ELSE a

NullLookup == [isNull |-> TRUE, isValid |-> FALSE]

\* enrichPropertyByParcel(parcelId, address): `first` answers the APN search,
\* `second` the address search that is tried only after a 404
enrichPropertyByParcel(hasAddress, first, second) ==
    LET propertyData ==
            IF first.kind = "data" THEN first
            ELSE IF first.kind = "http404" /\ hasAddress /\ second.kind = "data" THEN second
            ELSE [kind |-> "none", data |-> NoProperty]
    IN IF first.kind \in {"empty", "httpError"} THEN NullLookup   \* rethrown, outer catch
       ELSE IF propertyData.kind = "none" THEN NullLookup
       ELSE LET assessedImprovementValue ==
                    Nullish(propertyData.data.assessedImprovementValue,
                            Nullish(propertyData.data.assessed_improvement_value, "num:0"))
            IN [isNull |-> FALSE,
                isValid |-> assessedImprovementValue \notin {"num:0", "str:0"}]

\* new RealEstateService(): throws when REALESTATE_API_KEY is missing
RealEstateServiceConstructs(apiKeyPresent) == apiKeyPresent

(***************************************************************************)
(* Scrapers (BaseScraper.ts, *Scraper.ts, ScrapingService)                 *)
(***************************************************************************)
Counties == {"DeKalb", "Gwinnett", "Cobb", "Fulton", "Clayton"}
countyId(name) ==
    CASE name = "DeKalb" -> 1 [] name = "Gwinnett" -> 2 [] name = "Cobb" -> 3
      [] name = "Fulton" -> 4 [] name = "Clayton" -> 5

\* scrapers whose page lists PDF documents, each parsed by this.parsePdf
MultiPdf == {"Fulton", "Clayton", "Gwinnett"}

\* the records an extraction can produce: two amounts for one parcel, and a
\* parcel whose address is empty
CandidateLiens ==
    {[parcel_id |-> "P1", property_address |-> "100 MAIN ST", tax_amount_due |-> 100],
     [parcel_id |-> "P1", property_address |-> "100 MAIN ST", tax_amount_due |-> 250],
     [parcel_id |-> "P2", property_address |-> "", tax_amount_due |-> 100]}

\* constructor(countyId, countyName, enableEnrichment = true)
Constructor(name, enableEnrichment, apiKeyPresent) ==
    [county |-> name,
     enableEnrichment |-> enableEnrichment /\ RealEstateServiceConstructs(apiKeyPresent),
     realEstateService |-> enableEnrichment /\ RealEstateServiceConstructs(apiKeyPresent)]

NoRunResult == [status |-> "none", message |-> <<>>]
NoSaveOutcome == [status |-> "none", message |-> ""]

RunFresh ==
    /\ scraper \in {Constructor(c, e, k) : c \in Counties, e \in BOOLEAN, k \in BOOLEAN}
    /\ runPc = "idle"
    /\ runs = 0
    /\ stages = <<>>
    /\ docsLeft = 0
    /\ docLog = <<>>
    /\ liens = <<>>
    /\ lookups = <<>>
    /\ keptIdx = <<>>
    /\ validLiens = <<>>
    /\ delayed = FALSE
    /\ logData = 0
    /\ upserts = {}
    /\ saveOutcome = NoSaveOutcome
    /\ enrichQueue = <<>>
    /\ tax_liens = <<>>
    /\ scrape_logs = <<>>
    /\ runResult = NoRunResult
    /\ calls = <<>>

\* the scraper side at rest, while parsePdf is studied on its own
RunParked ==
    /\ scraper = Constructor("Fulton", FALSE, FALSE)
    /\ runPc = "idle"
    /\ runs = 0
    /\ stages = <<>>
    /\ docsLeft = 0
    /\ docLog = <<>>
    /\ liens = <<>>
    /\ lookups = <<>>
    /\ keptIdx = <<>>
    /\ validLiens = <<>>
    /\ delayed = FALSE
    /\ logData = 0
    /\ upserts = {}
    /\ saveOutcome = NoSaveOutcome
    /\ enrichQueue = <<>>
    /\ tax_liens = <<>>
    /\ scrape_logs = <<>>
    /\ runResult = NoRunResult
    /\ calls = <<>>

\* parsePdf at rest, while the scrapers are studied
PdfParked ==
    /\ env = [VERCEL |-> "undefined", AWS_LAMBDA_FUNCTION_NAME |-> "undefined"]
    /\ pdfPc = "idle"
    /\ attempts = <<>>
    /\ tierInput = [t \in Range(Tiers) |-> NoInput]
    /\ tierResult = [t \in Range(Tiers) |-> NoResult]
    /\ pdfResult = [status |-> "none", text |-> <<>>, message |-> <<>>]

\* a scrape() that enriches without looking at its flags
filterEnabled_Unchecked == TRUE
\* scrape(): `if (this.enableEnrichment && this.realEstateService)`
filterEnabled == scraper.enableEnrichment /\ scraper.realEstateService

\* The awaited calls of scrape(): `await f(...)` issues the call and resumes
\* when it settles; `await new Promise(r => setTimeout(r, rateLimitDelay))` is
\* the delay step.
EnrichmentCalls == {"enrichPropertyByParcel", "enrichProperty"}
Issued(kind) == [ev |-> "issued", of |-> kind]
Settled(kind) == [ev |-> "settled", of |-> kind]
DelayStep == [ev |-> "delay", of |-> "setTimeout"]
\* calls of the given kinds that are issued and not yet settled
InFlight(kinds) ==
    Cardinality({i \in 1..Len(calls) : calls[i].ev = "issued" /\ calls[i].of \in kinds})
        - Cardinality({i \in 1..Len(calls) : calls[i].ev = "settled" /\ calls[i].of \in kinds})

\* catch (error) { throw new Error(`<County> scraping failed: ${error.message}`) }
ScrapeRejects(cause) ==
    /\ runPc' = "done"
    /\ runResult' = [status |-> "rejected",
                     message |-> <<scraper.county, " scraping failed: ", cause>>]

\* scrape() is called.  FultonScraper first looks at FULTON_MANUAL_INPUT and,
\* when it is set, parses the pasted text instead of fetching the county page.
ScrapeStart(manualInput) ==
    /\ runPc = "idle"
    /\ manualInput => scraper.county = "Fulton"
    /\ runs' = runs + 1
    /\ stages' = IF manualInput THEN <<"Extract">> ELSE <<"Fetch">>
    /\ runPc' = IF manualInput THEN "extract_html" ELSE "fetch"
    /\ docsLeft' = 0
    /\ docLog' = <<>>
    /\ liens' = <<>>
    /\ lookups' = <<>>
    /\ keptIdx' = <<>>
    /\ validLiens' = <<>>
    /\ delayed' = FALSE
    /\ logData' = 0
    /\ saveOutcome' = NoSaveOutcome
    /\ enrichQueue' = <<>>
    /\ runResult' = NoRunResult
    /\ calls' = <<>>
    /\ UNCHANGED <<scraper, upserts, tax_liens, scrape_logs>>
    /\ UNCHANGED outsideRun

\* const response = await axios.get(url): the county page, with nDocs PDF links
FetchPage(ok, nDocs) ==
    /\ runPc = "fetch"
    /\ IF ok
       THEN /\ stages' = Append(stages, "Extract")
            /\ docsLeft' = IF scraper.county \in MultiPdf THEN nDocs ELSE 0
            /\ runPc' = IF scraper.county \in MultiPdf /\ nDocs > 0
                        THEN "docs" ELSE "extract_html"
            /\ UNCHANGED runResult
       ELSE /\ ScrapeRejects("page request failed")
            /\ UNCHANGED <<stages, docsLeft>>
    /\ UNCHANGED <<scraper, runs, docLog, liens, lookups, keptIdx, validLiens, delayed,
                   logData, upserts, saveOutcome, enrichQueue, tax_liens, scrape_logs>>
    /\ UNCHANGED <<calls, outsideRun>>

\* one iteration of `for (const pdfUrl of pdfUrls) { try { pdfLiens = await
\* this.parsePdf(pdfUrl); liens.push(...pdfLiens) } catch (pdfError) { log } }`
\* outcome: the download throws, parsePdf throws (all tiers exhausted), or the
\* row reconstruction returns `rows`
DocOutcomes == {"downloadFailed", "extractionFailed", "parsed"}

\* `await this.parsePdf(pdfUrl)` is issued for the next PDF link
DocCall ==
    /\ runPc = "docs"
    /\ docsLeft > 0
    /\ InFlight({"parsePdf"}) = 0
    /\ calls' = Append(calls, Issued("parsePdf"))
    /\ UNCHANGED <<scraper, runPc, runs, stages, docsLeft, docLog, liens, lookups, keptIdx,
                   validLiens, delayed, logData, upserts, saveOutcome, enrichQueue,
                   tax_liens, scrape_logs, runResult>>
    /\ UNCHANGED outsideRun

\* a loop without the inner try/catch: a failing document ends the run
ProcessDoc_FailureAborts(outcome, rows) ==
    /\ runPc = "docs"
    /\ docsLeft > 0
    /\ InFlight({"parsePdf"}) > 0
    /\ calls' = Append(calls, Settled("parsePdf"))
    /\ outcome # "parsed" => rows = <<>>
    /\ Len(liens) + Len(rows) <= MaxLiens
    /\ docLog' = Append(docLog, [outcome |-> outcome, rows |-> rows])
    /\ liens' = liens \o rows
    /\ IF outcome = "parsed"
       THEN /\ docsLeft' = docsLeft - 1
            /\ runPc' = IF docsLeft = 1 THEN "extract_html" ELSE "docs"
            /\ UNCHANGED runResult
       ELSE /\ ScrapeRejects("document failed")
            /\ UNCHANGED docsLeft
    /\ UNCHANGED <<scraper, runs, stages, lookups, keptIdx, validLiens, delayed, logData,
                   upserts, saveOutcome, enrichQueue, tax_liens, scrape_logs>>
    /\ UNCHANGED outsideRun

ProcessDoc(outcome, rows) ==
    /\ runPc = "docs"
    /\ docsLeft > 0
    /\ InFlight({"parsePdf"}) > 0
    /\ calls' = Append(calls, Settled("parsePdf"))
    /\ outcome # "parsed" => rows = <<>>
    /\ Len(liens) + Len(rows) <= MaxLiens
    /\ docLog' = Append(docLog, [outcome |-> outcome, rows |-> rows])
    /\ liens' = liens \o rows
    /\ docsLeft' = docsLeft - 1
    /\ runPc' = IF docsLeft = 1 THEN "extract_html" ELSE "docs"
    /\ UNCHANGED <<scraper, runs, stages, lookups, keptIdx, validLiens, delayed, logData,
                   upserts, saveOutcome, enrichQueue, tax_liens, scrape_logs, runResult>>
    /\ UNCHANGED outsideRun

\* the records taken from markup (Cobb and DeKalb table rows, Clayton listing
\* blocks) or from the pasted text (Fulton manual input); then the choice
\* between enrichAndFilterLiens(liens) and validLiens = liens
ExtractHtml(rows) ==
    /\ runPc = "extract_html"
    /\ (scraper.county \in {"Gwinnett", "Fulton"} /\ stages[1] = "Fetch") => rows = <<>>
    \* processManualInput keeps the first record of each parcel id (seenParcelIds)
    /\ stages[1] = "Extract" =>
          \A i, j \in 1..Len(rows) : rows[i].parcel_id = rows[j].parcel_id => i = j
    /\ Len(liens) + Len(rows) <= MaxLiens
    /\ liens' = liens \o rows
    /\ LET all == liens \o rows
           filtering == filterEnabled /\ (scraper.county = "DeKalb" => Len(all) > 0)
       IN /\ runPc' = IF filtering THEN "filter" ELSE "persist"
          /\ stages' = IF filtering THEN Append(stages, "Filter") ELSE stages
          /\ validLiens' = IF filtering THEN <<>> ELSE all
    /\ UNCHANGED <<scraper, runs, docsLeft, docLog, lookups, keptIdx, delayed, logData,
                   upserts, saveOutcome, enrichQueue, tax_liens, scrape_logs, runResult>>
    /\ UNCHANGED <<calls, outsideRun>>

\* enrichAndFilterLiens: if (i > 0) await setTimeout(rateLimitDelay)
FilterDelay ==
    /\ runPc = "filter"
    /\ Len(lookups) < Len(liens)
    /\ Len(lookups) > 0
    /\ ~delayed
    /\ InFlight(EnrichmentCalls) = 0
    /\ delayed' = TRUE
    /\ calls' = Append(calls, DelayStep)
    /\ UNCHANGED <<scraper, runPc, runs, stages, docsLeft, docLog, liens, lookups, keptIdx,
                   validLiens, logData, upserts, saveOutcome, enrichQueue, tax_liens,
                   scrape_logs, runResult>>
    /\ UNCHANGED outsideRun

\* which lookup results keep the record
\* FultonScraper: `if (enrichmentResult)`; the others: `if (result && result.isValid)`
keepsLien(county, result) ==
    IF county = "Fulton" THEN ~result.isNull ELSE ~result.isNull /\ result.isValid

\* a loop that issues the lookups without awaiting each:
\* `await Promise.all(liens.map(lien => enrichPropertyByParcel(...)))`
FilterCall_FanOut ==
    /\ runPc = "filter"
    /\ Len(lookups) + InFlight({"enrichPropertyByParcel"}) < Len(liens)
    /\ calls' = Append(calls, Issued("enrichPropertyByParcel"))
    /\ UNCHANGED <<scraper, runPc, runs, stages, docsLeft, docLog, liens, lookups, keptIdx,
                   validLiens, delayed, logData, upserts, saveOutcome, enrichQueue,
                   tax_liens, scrape_logs, runResult>>
    /\ UNCHANGED outsideRun

\* enrichAndFilterLiens: `await this.realEstateService.enrichPropertyByParcel(...)`
\* is issued for liens[i], after the delay when i > 0
FilterCall ==
    /\ runPc = "filter"
    /\ Len(lookups) < Len(liens)
    /\ Len(lookups) > 0 => delayed
    /\ InFlight(EnrichmentCalls) = 0
    /\ calls' = Append(calls, Issued("enrichPropertyByParcel"))
    /\ UNCHANGED <<scraper, runPc, runs, stages, docsLeft, docLog, liens, lookups, keptIdx,
                   validLiens, delayed, logData, upserts, saveOutcome, enrichQueue,
                   tax_liens, scrape_logs, runResult>>
    /\ UNCHANGED outsideRun

\* a filter that fills in the record it keeps from the lookup and puts it first:
\* `validLiens.unshift({ ...lien, property_address: ... })`
FilterLookup_Rewrites(first, second) ==
    /\ runPc = "filter"
    /\ Len(lookups) < Len(liens)
    /\ InFlight({"enrichPropertyByParcel"}) > 0
    /\ calls' = Append(calls, Settled("enrichPropertyByParcel"))
    /\ LET i == Len(lookups) + 1
           lien == liens[i]
           \* Fulton and Gwinnett pass undefined for an empty property_address,
           \* the others pass the (falsy) empty string
           result == enrichPropertyByParcel(lien.property_address # "", first, second)
       IN /\ lookups' = Append(lookups, result)
          /\ keptIdx' = IF keepsLien(scraper.county, result) THEN Append(keptIdx, i)
                        ELSE keptIdx
          /\ validLiens' = IF keepsLien(scraper.county, result)
                           THEN <<[lien EXCEPT !.property_address = "100 MAIN ST"]>>
                                    \o validLiens
                           ELSE validLiens
    /\ delayed' = FALSE
    /\ UNCHANGED <<scraper, runPc, runs, stages, docsLeft, docLog, liens, logData, upserts,
                   saveOutcome, enrichQueue, tax_liens, scrape_logs, runResult>>
    /\ UNCHANGED outsideRun

\* enrichAndFilterLiens: the lookup settles, and the push to validLiens
FilterLookup(first, second) ==
    /\ runPc = "filter"
    /\ Len(lookups) < Len(liens)
    /\ InFlight({"enrichPropertyByParcel"}) > 0
    /\ calls' = Append(calls, Settled("enrichPropertyByParcel"))
    /\ LET i == Len(lookups) + 1
           lien == liens[i]
           \* Fulton and Gwinnett pass undefined for an empty property_address,
           \* the others pass the (falsy) empty string
           result == enrichPropertyByParcel(lien.property_address # "", first, second)
       IN /\ lookups' = Append(lookups, result)
          /\ keptIdx' = IF keepsLien(scraper.county, result) THEN Append(keptIdx, i)
                        ELSE keptIdx
          /\ validLiens' = IF keepsLien(scraper.county, result)
                           THEN Append(validLiens, lien) ELSE validLiens
    /\ delayed' = FALSE
    /\ UNCHANGED <<scraper, runPc, runs, stages, docsLeft, docLog, liens, logData, upserts,
                   saveOutcome, enrichQueue, tax_liens, scrape_logs, runResult>>
    /\ UNCHANGED outsideRun

\* an enrichAndFilterLiens that could return while lookups are outstanding
FilterReturn_BeforeLoopEnd ==
    /\ runPc = "filter"
    /\ Len(lookups) <= Len(liens)
    /\ runPc' = "persist"
    /\ UNCHANGED <<scraper, runs, stages, docsLeft, docLog, liens, lookups, keptIdx,
                   validLiens, delayed, logData, upserts, saveOutcome, enrichQueue,
                   tax_liens, scrape_logs, runResult>>
    /\ UNCHANGED <<calls, outsideRun>>

\* enrichAndFilterLiens returns validLiens
FilterReturn ==
    /\ runPc = "filter"
    /\ Len(lookups) = Len(liens)
    /\ runPc' = "persist"
    /\ UNCHANGED <<scraper, runs, stages, docsLeft, docLog, liens, lookups, keptIdx,
                   validLiens, delayed, logData, upserts, saveOutcome, enrichQueue,
                   tax_liens, scrape_logs, runResult>>
    /\ UNCHANGED <<calls, outsideRun>>


(***************************************************************************)
(* BaseScraper.saveToDatabase                                              *)
(***************************************************************************)
\* the row sent by .upsert({...}, { onConflict: "county_id,parcel_id" })
UpsertRow(lien, at) ==
    [county_id |-> countyId(scraper.county), parcel_id |-> lien.parcel_id,
     property_address |-> lien.property_address,
     tax_amount_due |-> lien.tax_amount_due, scraped_at |-> at]

SameKey(a, b) == a.county_id = b.county_id /\ a.parcel_id = b.parcel_id

HasKey(table, row) == \E i \in 1..Len(table) : SameKey(table[i], row)

\* a plain INSERT into a table without the unique constraint
Upsert_PlainInsert(table, row) == Append(table, row)

\* INSERT ... ON CONFLICT (county_id, parcel_id) DO UPDATE SET <all columns>
Upsert(table, row) ==
    IF HasKey(table, row)
    THEN [i \in 1..Len(table) |-> IF SameKey(table[i], row) THEN row ELSE table[i]]
    ELSE Append(table, row)

CurrentUpserts == {u \in upserts : u.run = runs}

\* a supabase request resolves with { data, error }; `error` set means the
\* statement failed.  A rejected promise is the third possibility.
RequestOutcomes == {"ok", "error", "throws"}

\* catch (error) { if (logData?.id) update status "failed"; throw error }
SaveCatch(cause, updFailed) ==
    /\ saveOutcome' = [status |-> "threw", message |-> cause]
    /\ runPc' = "save_threw"
    /\ scrape_logs' =
          IF logData # 0 /\ updFailed = "ok"
          THEN [scrape_logs EXCEPT ![logData] =
                    [@ EXCEPT !.status = "failed", !.error_message = <<cause>>]]
          ELSE scrape_logs

\* scrape(): DeKalbScraper calls saveToDatabase only `if (validLiens.length > 0)`
SkipPersist ==
    /\ runPc = "persist"
    /\ scraper.county = "DeKalb"
    /\ Len(validLiens) = 0
    /\ runPc' = "return"
    /\ UNCHANGED <<scraper, runs, stages, docsLeft, docLog, liens, lookups, keptIdx,
                   validLiens, delayed, logData, upserts, saveOutcome, enrichQueue,
                   tax_liens, scrape_logs, runResult>>
    /\ UNCHANGED <<calls, outsideRun>>

\* scrape(): await this.saveToDatabase(validLiens)
PersistCall ==
    /\ runPc = "persist"
    /\ scraper.county = "DeKalb" => Len(validLiens) > 0
    /\ stages' = Append(stages, "Persist")
    /\ runPc' = "save_insert_log"
    /\ UNCHANGED <<scraper, runs, docsLeft, docLog, liens, lookups, keptIdx, validLiens,
                   delayed, logData, upserts, saveOutcome, enrichQueue, tax_liens,
                   scrape_logs, runResult>>
    /\ UNCHANGED <<calls, outsideRun>>

\* saveToDatabase lines 29-63: insert the scrape log, then liens.map(upsert)
SaveInsertLog(outcome) ==
    /\ runPc = "save_insert_log"
    /\ IF outcome = "throws"
       THEN \* catch: logData is null, no update, rethrow
            /\ SaveCatch("scrape log insert failed", "ok")
            /\ UNCHANGED <<logData, upserts>>
       ELSE /\ IF outcome = "ok"
               THEN /\ scrape_logs' = Append(scrape_logs,
                          [county_id |-> countyId(scraper.county), status |-> "running",
                           records_found |-> Len(validLiens), error_message |-> <<>>])
                    /\ logData' = Len(scrape_logs) + 1
               ELSE /\ logData' = 0
                    /\ UNCHANGED scrape_logs
            /\ upserts' = upserts \cup
                   {[run |-> runs, i |-> i, row |-> UpsertRow(validLiens[i], runs),
                     state |-> "pending"] : i \in 1..Len(validLiens)}
            /\ runPc' = "await_all"
            /\ UNCHANGED saveOutcome
    /\ UNCHANGED <<scraper, runs, stages, docsLeft, docLog, liens, lookups, keptIdx,
                   validLiens, delayed, enrichQueue, tax_liens, runResult>>
    /\ UNCHANGED <<calls, outsideRun>>

\* one upsert request settles; requests are in flight together and settle in any order
UpsertSettle(u, outcome) ==
    /\ u \in upserts
    /\ u.state = "pending"
    /\ IF outcome = "ok"
       THEN /\ tax_liens' = Upsert(tax_liens, u.row)
            /\ upserts' = (upserts \ {u}) \cup
                  {[u EXCEPT !.state = IF HasKey(tax_liens, u.row) THEN "updated"
                                       ELSE "inserted"]}
       ELSE /\ upserts' = (upserts \ {u}) \cup
                  {[u EXCEPT !.state = IF outcome = "error" THEN "error" ELSE "rejected"]}
            /\ UNCHANGED tax_liens
    /\ UNCHANGED <<scraper, runPc, runs, stages, docsLeft, docLog, liens, lookups, keptIdx,
                   validLiens, delayed, logData, saveOutcome, enrichQueue, scrape_logs,
                   runResult>>
    /\ UNCHANGED <<calls, outsideRun>>

\* await Promise.all(taxLienPromises) resolves; then the log is set to
\* "completed" (lines 65-78)
PromiseAllResolve(upd, updFailed) ==
    /\ runPc = "await_all"
    /\ \A u \in CurrentUpserts : u.state \notin {"pending", "rejected"}
    /\ upd # "throws" => updFailed = "ok"
    /\ IF logData = 0
       THEN \* logData.id on null
            /\ upd = "ok" /\ updFailed = "ok"
            /\ SaveCatch("TypeError: Cannot read properties of null", updFailed)
       ELSE IF upd = "throws"
       THEN SaveCatch("scrape log update failed", updFailed)
       ELSE /\ scrape_logs' =
                  IF upd = "ok"
                  THEN [scrape_logs EXCEPT ![logData] = [@ EXCEPT !.status = "completed"]]
                  ELSE scrape_logs
            /\ saveOutcome' = [status |-> "returned", message |-> ""]
            /\ runPc' = "saved"
    /\ UNCHANGED <<scraper, runs, stages, docsLeft, docLog, liens, lookups, keptIdx,
                   validLiens, delayed, logData, upserts, enrichQueue, tax_liens, runResult>>
    /\ UNCHANGED <<calls, outsideRun>>

\* await Promise.all(taxLienPromises) rejects as soon as one request rejects
PromiseAllReject(updFailed) ==
    /\ runPc = "await_all"
    /\ \E u \in CurrentUpserts : u.state = "rejected"
    /\ SaveCatch("upsert request rejected", updFailed)
    /\ UNCHANGED <<scraper, runs, stages, docsLeft, docLog, liens, lookups, keptIdx,
                   validLiens, delayed, logData, upserts, enrichQueue, tax_liens, runResult>>
    /\ UNCHANGED <<calls, outsideRun>>

\* scrape() after saveToDatabase returned: enrichSavedLiens or return
AfterSave ==
    /\ runPc = "saved"
    /\ IF filterEnabled /\ Len(validLiens) > 0
       THEN /\ stages' = Append(stages, "Enrich")
            /\ IF scraper.county \in {"Fulton", "Gwinnett"}
               THEN /\ runPc' = "enrich"
                    /\ enrichQueue' = [i \in 1..Len(validLiens) |-> validLiens[i].parcel_id]
               ELSE /\ runPc' = "enrich_select"
                    /\ UNCHANGED enrichQueue
       ELSE /\ runPc' = "return"
            /\ UNCHANGED <<stages, enrichQueue>>
    /\ UNCHANGED <<scraper, runs, docsLeft, docLog, liens, lookups, keptIdx, validLiens,
                   delayed, logData, upserts, saveOutcome, tax_liens, scrape_logs, runResult>>
    /\ UNCHANGED <<calls, outsideRun>>

\* scrape(): saveToDatabase threw; the outer catch wraps and rethrows.  Fulton's
\* manual-input path is `return this.processManualInput(...)` without await, so
\* its rejection passes the catch unwrapped.
ScrapeCatch ==
    /\ runPc = "save_threw"
    /\ IF stages[1] = "Extract"
       THEN /\ runPc' = "done"
            /\ runResult' = [status |-> "rejected", message |-> <<saveOutcome.message>>]
       ELSE ScrapeRejects(saveOutcome.message)
    /\ UNCHANGED <<scraper, runs, stages, docsLeft, docLog, liens, lookups, keptIdx,
                   validLiens, delayed, logData, upserts, saveOutcome, enrichQueue,
                   tax_liens, scrape_logs>>
    /\ UNCHANGED <<calls, outsideRun>>

(***************************************************************************)
(* enrichSavedLiens and the end of scrape()                                *)
(***************************************************************************)
\* Cobb, Clayton, DeKalb: select id, parcel_id of the county's rows whose
\* parcel_id is in the list; on error return
EnrichSelect(ok) ==
    /\ runPc = "enrich_select"
    /\ IF ok
       THEN /\ enrichQueue' =
                 LET want == {validLiens[i].parcel_id : i \in 1..Len(validLiens)}
                 IN SelectSeq([i \in 1..Len(tax_liens) |-> tax_liens[i].parcel_id],
                              LAMBDA p : p \in want)
            /\ runPc' = "enrich"
       ELSE /\ runPc' = "return"
            /\ UNCHANGED enrichQueue
    /\ UNCHANGED <<scraper, runs, stages, docsLeft, docLog, liens, lookups, keptIdx,
                   validLiens, delayed, logData, upserts, saveOutcome, tax_liens,
                   scrape_logs, runResult>>
    /\ UNCHANGED <<calls, outsideRun>>

\* one iteration of the enrichSavedLiens loop; every failure is caught
EnrichSavedOutcomes == {"enriched", "rowNotFound", "enrichPropertyThrows"}

\* FultonScraper and GwinnettScraper loop over the liens with the delay
\* `if (i > 0) await setTimeout(rateLimitDelay)`; the loops of CobbScraper,
\* DeKalbScraper and ClaytonScraper over the selected rows hold no delay
DelaysSavedLiens == scraper.county \in {"Fulton", "Gwinnett"}
SavedDelayDue == DelaysSavedLiens /\ Len(enrichQueue) < Len(validLiens) /\ ~delayed

EnrichSavedDelay ==
    /\ runPc = "enrich"
    /\ enrichQueue # <<>>
    /\ SavedDelayDue
    /\ InFlight(EnrichmentCalls) = 0
    /\ delayed' = TRUE
    /\ calls' = Append(calls, DelayStep)
    /\ UNCHANGED <<scraper, runPc, runs, stages, docsLeft, docLog, liens, lookups, keptIdx,
                   validLiens, logData, upserts, saveOutcome, enrichQueue, tax_liens,
                   scrape_logs, runResult>>
    /\ UNCHANGED outsideRun

\* `await this.realEstateService.enrichProperty(id, parcel_id)` is issued
EnrichSavedCall ==
    /\ runPc = "enrich"
    /\ enrichQueue # <<>>
    /\ ~SavedDelayDue
    /\ InFlight(EnrichmentCalls) = 0
    /\ calls' = Append(calls, Issued("enrichProperty"))
    /\ UNCHANGED <<scraper, runPc, runs, stages, docsLeft, docLog, liens, lookups, keptIdx,
                   validLiens, delayed, logData, upserts, saveOutcome, enrichQueue,
                   tax_liens, scrape_logs, runResult>>
    /\ UNCHANGED outsideRun

\* the iteration ends: enrichProperty settled, or (Fulton, Gwinnett) the saved
\* row was not found and the iteration issued no call
EnrichSavedStep(outcome) ==
    /\ runPc = "enrich"
    /\ enrichQueue # <<>>
    /\ IF outcome = "rowNotFound"
       THEN /\ DelaysSavedLiens
            /\ ~SavedDelayDue
            /\ InFlight(EnrichmentCalls) = 0
            /\ UNCHANGED calls
       ELSE /\ InFlight({"enrichProperty"}) > 0
            /\ calls' = Append(calls, Settled("enrichProperty"))
    /\ enrichQueue' = Tail(enrichQueue)
    /\ delayed' = FALSE
    /\ UNCHANGED <<scraper, runPc, runs, stages, docsLeft, docLog, liens, lookups, keptIdx,
                   validLiens, logData, upserts, saveOutcome, tax_liens,
                   scrape_logs, runResult>>
    /\ UNCHANGED outsideRun

EnrichSavedReturn ==
    /\ runPc = "enrich"
    /\ enrichQueue = <<>>
    /\ runPc' = "return"
    /\ UNCHANGED <<scraper, runs, stages, docsLeft, docLog, liens, lookups, keptIdx,
                   validLiens, delayed, logData, upserts, saveOutcome, enrichQueue,
                   tax_liens, scrape_logs, runResult>>
    /\ UNCHANGED <<calls, outsideRun>>

\* return validLiens
ScrapeReturn ==
    /\ runPc = "return"
    /\ runPc' = "done"
    /\ runResult' = [status |-> "resolved", message |-> <<>>]
    /\ UNCHANGED <<scraper, runs, stages, docsLeft, docLog, liens, lookups, keptIdx,
                   validLiens, delayed, logData, upserts, saveOutcome, enrichQueue,
                   tax_liens, scrape_logs>>
    /\ UNCHANGED <<calls, outsideRun>>

LienLists == SeqsUpTo(CandidateLiens, MaxLiens)

RunNext ==
    \/ \E m \in BOOLEAN : ScrapeStart(m)
    \/ \E ok \in BOOLEAN, n \in 0..MaxDocs : FetchPage(ok, n)
    \/ DocCall
    \/ \E o \in DocOutcomes, rows \in LienLists : ProcessDoc(o, rows)
    \/ \E rows \in LienLists : ExtractHtml(rows)
    \/ FilterDelay
    \/ FilterCall
    \/ \E first \in ApiResponses, second \in ApiResponses : FilterLookup(first, second)
    \/ FilterReturn
    \/ SkipPersist
    \/ PersistCall
    \/ \E o \in RequestOutcomes : SaveInsertLog(o)
    \/ \E u \in upserts, o \in RequestOutcomes : UpsertSettle(u, o)
    \/ \E upd \in RequestOutcomes, uf \in RequestOutcomes : PromiseAllResolve(upd, uf)
    \/ \E uf \in RequestOutcomes : PromiseAllReject(uf)
    \/ AfterSave
    \/ ScrapeCatch
    \/ \E ok \in BOOLEAN : EnrichSelect(ok)
    \/ EnrichSavedDelay
    \/ EnrichSavedCall
    \/ \E o \in EnrichSavedOutcomes : EnrichSavedStep(o)
    \/ EnrichSavedReturn
    \/ ScrapeReturn

(***************************************************************************)
(* saveToDatabase driven directly: the scrapers of ScrapingService share    *)
(* one database and call it one after the other                            *)
(***************************************************************************)
SaveCounties == {"Cobb", "DeKalb"}

SaveFresh ==
    /\ scraper \in {Constructor(c, TRUE, TRUE) : c \in SaveCounties}
    /\ runPc = "caller"
    /\ runs = 0
    /\ stages = <<>>
    /\ docsLeft = 0
    /\ docLog = <<>>
    /\ liens = <<>>
    /\ lookups = <<>>
    /\ keptIdx = <<>>
    /\ validLiens = <<>>
    /\ delayed = FALSE
    /\ logData = 0
    /\ upserts = {}
    /\ saveOutcome = NoSaveOutcome
    /\ enrichQueue = <<>>
    /\ tax_liens = <<>>
    /\ scrape_logs = <<>>
    /\ runResult = NoRunResult
    /\ calls = <<>>

\* scraper `c` calls saveToDatabase(lienList)
SaveCall(c, lienList) ==
    /\ runPc \in {"caller", "saved", "save_threw"}
    /\ runs < MaxRuns
    /\ runs' = runs + 1
    /\ scraper' = Constructor(c, TRUE, TRUE)
    /\ validLiens' = lienList
    /\ logData' = 0
    /\ saveOutcome' = NoSaveOutcome
    /\ upserts' = {u \in upserts : u.state = "pending"}
    /\ runPc' = "save_insert_log"
    /\ UNCHANGED <<stages, docsLeft, docLog, liens, lookups, keptIdx, delayed, enrichQueue,
                   tax_liens, scrape_logs, runResult>>
    /\ UNCHANGED <<calls, outsideRun>>

SaveNext ==
    \/ \E c \in SaveCounties, lienList \in LienLists : SaveCall(c, lienList)
    \/ \E o \in RequestOutcomes : SaveInsertLog(o)
    \/ \E u \in upserts, o \in RequestOutcomes : UpsertSettle(u, o)
    \/ \E upd \in RequestOutcomes, uf \in RequestOutcomes : PromiseAllResolve(upd, uf)
    \/ \E uf \in RequestOutcomes : PromiseAllReject(uf)

(***************************************************************************)
(* Regular expressions: the ECMAScript backtracking matcher, for the       *)
(* constructs the extractors use.  A pattern is a tree; Ends lists, in the *)
(* order backtracking tries them, the positions at which a match that      *)
(* starts at position i can end.                                           *)
(***************************************************************************)
\* "abc" as <<"a", "b", "c">>
Chars(str) == [i \in 1..Len(str) |-> SubSeq(str, i, i)]

Digit == {"0", "1", "2", "3", "4", "5", "6", "7", "8", "9"}
UpperCase == Chars("ABCDEFGHIJKLMNOPQRSTUVWXYZ")
LowerCase == Chars("abcdefghijklmnopqrstuvwxyz")
Upper == Range(UpperCase)
Lower == Range(LowerCase)
Letter == Upper \cup Lower
Space == {" ", "\n", "\t", "\r"}

\* String.prototype.toLowerCase / toUpperCase on one character
LowerChar(c) ==
    IF c \in Upper THEN LowerCase[CHOOSE k \in 1..Len(UpperCase) : UpperCase[k] = c] ELSE c
ToLowerCase(s) == [i \in 1..Len(s) |-> LowerChar(s[i])]

\* pattern constructors
Cls(S) == [t |-> "cls", set |-> S]                \* [...]
NotCls(S) == [t |-> "not", set |-> S]             \* [^...]
Bol == [t |-> "bol"]                              \* ^
Eol == [t |-> "eol"]                              \* $
Cat(ps) == [t |-> "seq", parts |-> ps]            \* p1 p2 ...
Rep(r, lo, hi) ==                                 \* r{lo,hi}
    [t |-> "rep", r |-> r, min |-> lo, max |-> hi, bounded |-> TRUE, greedy |-> TRUE]
AtLeast(r, lo) ==                                 \* r{lo,}
    [t |-> "rep", r |-> r, min |-> lo, max |-> lo, bounded |-> FALSE, greedy |-> TRUE]
LazyAtLeast(r, lo) ==                             \* r{lo,}?
    [t |-> "rep", r |-> r, min |-> lo, max |-> lo, bounded |-> FALSE, greedy |-> FALSE]
\* literal alternatives w1|w2|..., and the same under the i flag
Lits(strs) == [t |-> "lits", words |-> [k \in 1..Len(strs) |-> Chars(strs[k])], fold |-> FALSE]
LitsI(strs) ==
    [t |-> "lits", words |-> [k \in 1..Len(strs) |-> ToLowerCase(Chars(strs[k]))],
     fold |-> TRUE]
Lit(str) == Lits(<<str>>)
LitI(str) == LitsI(<<str>>)

\* keep the first occurrence of every position
Dedup(ps) ==
    LET firsts == {k \in 1..Len(ps) : \A j \in 1..(k - 1) : ps[j] # ps[k]}
    IN [n \in 1..Cardinality(firsts) |->
           ps[CHOOSE k \in firsts : Cardinality({j \in firsts : j < k}) = n - 1]]

\* the literal alternatives that match at position i, in their order
LitsEnds(re, s, i) ==
    LET at(w) == i + Len(w) - 1 <= Len(s)
                 /\ LET text == SubSeq(s, i, i + Len(w) - 1)
                    IN (IF re.fold THEN ToLowerCase(text) ELSE text) = w
        hits == SelectSeq(re.words, at)
    IN Dedup([k \in 1..Len(hits) |-> i + Len(hits[k])])

\* c{lo,hi} for a character class c: the run of class characters from i
InCls(c, ch) == IF c.t = "cls" THEN ch \in c.set ELSE ch \notin c.set
ClassRepEnds(re, s, i) ==
    LET run == CHOOSE n \in 0..(Len(s) - i + 1) :
                   /\ \A j \in i..(i + n - 1) : InCls(re.r, s[j])
                   /\ i + n <= Len(s) => ~InCls(re.r, s[i + n])
        top == IF re.bounded /\ re.max < run THEN re.max ELSE run
    IN IF top < re.min THEN <<>>
       ELSE [k \in 1..(top - re.min + 1) |->
                IF re.greedy THEN i + top - (k - 1) ELSE i + re.min + (k - 1)]

\* The positions at which a match of re that starts at one of the positions
\* starts can end, in the order backtracking tries them.
RECURSIVE Ends(_, _, _)
Ends(re, s, starts) ==
    IF starts = <<>> THEN <<>>
    ELSE IF Len(starts) > 1
    THEN Dedup(Ends(re, s, <<starts[1]>>) \o Ends(re, s, Tail(starts)))
    ELSE LET i == starts[1] IN
      CASE re.t = "cls" -> IF i <= Len(s) /\ s[i] \in re.set THEN <<i + 1>> ELSE <<>>
        [] re.t = "not" -> IF i <= Len(s) /\ s[i] \notin re.set THEN <<i + 1>> ELSE <<>>
        [] re.t = "bol" -> IF i = 1 THEN <<i>> ELSE <<>>
        [] re.t = "eol" -> IF i = Len(s) + 1 THEN <<i>> ELSE <<>>
        [] re.t = "lits" -> LitsEnds(re, s, i)
        [] re.t = "seq" ->
              IF re.parts = <<>> THEN <<i>>
              ELSE Ends(Cat(Tail(re.parts)), s, Ends(re.parts[1], s, <<i>>))
        [] re.t = "rep" ->
              IF re.r.t \in {"cls", "not"} THEN ClassRepEnds(re, s, i)
              ELSE \* a greedy quantifier tries one more iteration first
                   LET more == IF re.bounded /\ re.max = 0 THEN <<>>
                               ELSE Ends([re EXCEPT !.min = IF @ > 0 THEN @ - 1 ELSE 0,
                                                    !.max = @ - 1], s,
                                         SelectSeq(Ends(re.r, s, <<i>>), LAMBDA j : j > i))
                       stop == IF re.min = 0 THEN <<i>> ELSE <<>>
                   IN Dedup(IF re.greedy THEN more \o stop ELSE stop \o more)

\* the ends of the first part from which the second part matches: only these
\* can be the end backtracking settles on
Cands(parts, s, i) ==
    SelectSeq(Ends(parts[1], s, <<i>>),
              LAMBDA e : Len(parts) = 1 \/ Ends(parts[2], s, <<e>>) # <<>>)

\* The first match, in backtracking order, of the parts p1 p2 ... pk from
\* position i, the end of p1 being one of cands: its boundaries
\* <<i, e1, ..., ek>>, or <<>> when there is none.
RECURSIVE FirstBounds(_, _, _, _)
FirstBounds(parts, s, i, cands) ==
    LET settle(rest) == IF rest # <<>> THEN <<i>> \o rest
                        ELSE FirstBounds(parts, s, i, Tail(cands))
    IN IF cands = <<>> THEN <<>>
       ELSE settle(IF Len(parts) = 1 THEN <<cands[1]>>
                   ELSE FirstBounds(Tail(parts), s, cands[1],
                                    Cands(Tail(parts), s, cands[1])))
Bounds(parts, s, i) ==
    IF parts = <<>> THEN <<i>> ELSE FirstBounds(parts, s, i, Cands(parts, s, i))

\* regexp.exec(s) with lastIndex = i - 1: the leftmost match at or after i
ExecFrom(parts, s, i) ==
    LET leftmost(at) ==
            IF \A k \in DOMAIN at : at[k] = <<>> THEN <<>>
            ELSE at[CHOOSE k \in DOMAIN at :
                       at[k] # <<>> /\ \A j \in DOMAIN at : j < k => at[j] = <<>>]
    IN leftmost([k \in i..(Len(s) + 1) |-> Bounds(parts, s, k)])

\* s.match(re) for a pattern without the g flag
Match(parts, s) == ExecFrom(parts, s, 1)
\* re.test(s)
Test(parts, s) == Match(parts, s) # <<>>
\* the text matched by part k of a match with boundaries b
Group(s, b, k) == SubSeq(s, b[k], b[k + 1] - 1)
\* the whole matched text, match[0]
Whole(s, b) == SubSeq(s, b[1], b[Len(b)] - 1)

\* s.replace(re, by) for a pattern with the g flag that matches no empty text
RECURSIVE ReplaceAllFrom(_, _, _, _)
ReplaceAllFrom(parts, s, by, i) ==
    LET put(b) == IF b = <<>> THEN SubSeq(s, i, Len(s))
                  ELSE SubSeq(s, i, b[1] - 1) \o by
                           \o ReplaceAllFrom(parts, s, by, b[Len(b)])
    IN put(ExecFrom(parts, s, i))
ReplaceAll(parts, s, by) == ReplaceAllFrom(parts, s, by, 1)

\* s.split(re) for a pattern that matches no empty text
RECURSIVE SplitFrom(_, _, _)
SplitFrom(parts, s, i) ==
    LET cut(b) == IF b = <<>> THEN <<SubSeq(s, i, Len(s))>>
                  ELSE <<SubSeq(s, i, b[1] - 1)>> \o SplitFrom(parts, s, b[Len(b)])
    IN cut(ExecFrom(parts, s, i))
Split(parts, s) == SplitFrom(parts, s, 1)

\* while ((match = re.exec(s)) !== null): the matches of a pattern with the g
\* flag that matches no empty text, left to right
RECURSIVE ExecAllFrom(_, _, _)
ExecAllFrom(parts, s, i) ==
    LET next(b) == IF b = <<>> THEN <<>> ELSE <<b>> \o ExecAllFrom(parts, s, b[Len(b)])
    IN next(ExecFrom(parts, s, i))
ExecAll(parts, s) == ExecAllFrom(parts, s, 1)

\* s.indexOf(t), s.lastIndexOf(t) (1-based, 0 for -1) and s.includes(t)
Occurrences(s, t) == {i \in 1..(Len(s) - Len(t) + 1) : SubSeq(s, i, i + Len(t) - 1) = t}
IndexOf(s, t) ==
    LET first(at) == IF at = {} THEN 0 ELSE CHOOSE i \in at : \A j \in at : i <= j
    IN first(Occurrences(s, t))
LastIndexOf(s, t) ==
    LET last(at) == IF at = {} THEN 0 ELSE CHOOSE i \in at : \A j \in at : j <= i
    IN last(Occurrences(s, t))
Includes(s, t) == Occurrences(s, t) # {}

(***************************************************************************)
(* Row extractors: what each scraper turns one row, line or text block     *)
(* into.  Of a record the parcel id, the owner name and the street address *)
(* are followed.                                                           *)
(***************************************************************************)
D == Cls(Digit)
Ws0 == AtLeast(Cls(Space), 0)                     \* \s*
Ws1 == AtLeast(Cls(Space), 1)                     \* \s+
AnyChar == NotCls({})                             \* [\s\S]
Alnum == Letter \cup Digit

NullLien == [parcel_id |-> <<>>, owner_name |-> <<>>, property_address |-> <<>>]
\* `return null`, or a row that pushes nothing
Dropped == [ok |-> FALSE, lien |-> NullLien]
Emitted(parcelId, ownerName, address) ==
    [ok |-> TRUE,
     lien |-> [parcel_id |-> parcelId, owner_name |-> ownerName,
               property_address |-> address]]

\* BaseScraper.parseCurrency(value).  parseFloat reads the longest prefix that
\* is a decimal literal: an optional sign, then digits with an optional
\* fraction, or a fraction alone.  A number is kept as its sign, the digits of
\* its integer part and the digits of its fraction; NaN has nan set.
NaN == [nan |-> TRUE, neg |-> FALSE, int |-> <<>>, frac |-> <<>>]
RECURSIVE DigitRun(_)
DigitRun(s) == IF s # <<>> /\ Head(s) \in Digit THEN <<Head(s)>> \o DigitRun(Tail(s)) ELSE <<>>
parseFloat(s) ==
    LET signed == s # <<>> /\ Head(s) \in {"+", "-"}
        body == IF signed THEN Tail(s) ELSE s
        int == DigitRun(body)
        rest == SubSeq(body, Len(int) + 1, Len(body))
        frac == IF rest # <<>> /\ Head(rest) = "." THEN DigitRun(Tail(rest)) ELSE <<>>
    IN IF int = <<>> /\ frac = <<>> THEN NaN
       ELSE [nan |-> FALSE, neg |-> signed /\ Head(s) = "-", int |-> int, frac |-> frac]
parseCurrency(value) ==
    LET cleanValue == SelectSeq(value, LAMBDA c : c \notin {"$", ","} \cup Space)
        numValue == parseFloat(cleanValue)
    IN IF numValue.nan THEN [numValue EXCEPT !.nan = FALSE, !.int = <<"0">>] ELSE numValue
\* the number 0 of `taxAmountText ? this.parseCurrency(taxAmountText) : 0`
Zero == [nan |-> FALSE, neg |-> FALSE, int |-> <<"0">>, frac |-> <<>>]
\* n < 0, n = 0 for a number n
IsZero(n) == ~n.nan /\ \A k \in 1..Len(n.int \o n.frac) : (n.int \o n.frac)[k] = "0"
IsNegative(n) == ~n.nan /\ n.neg /\ ~IsZero(n)

\* BaseScraper.parseAddress(address).address: parts[0]?.trim() || address
parseAddress(addr) ==
    LET orWhole(mainAddress) == IF mainAddress # <<>> THEN mainAddress ELSE addr
    IN orWhole(Trim(Split(<<Lit(",")>>, addr)[1]))

\* arr.map(p => p.trim()), arr.filter(p => p.length > 0), arr.join(sep),
\* arr.slice(k).join(" ")
TrimAll(parts) == [i \in 1..Len(parts) |-> Trim(parts[i])]
NonEmpty(parts) == SelectSeq(parts, LAMBDA p : Len(p) > 0)
RECURSIVE Join(_, _)
Join(parts, sep) ==
    IF parts = <<>> THEN <<>>
    ELSE IF Len(parts) = 1 THEN parts[1]
    ELSE parts[1] \o sep \o Join(Tail(parts), sep)
JoinFrom(parts, k) == Join(SubSeq(parts, k, Len(parts)), <<" ">>)

\* BaseScraper.parseAddress(address), city and zip: taken from the text after
\* the first comma when it has two words or more, else undefined
Undefined == <<"undefined">>
parseAddressCityZip(addr) ==
    LET parts == Split(<<Lit(",")>>, addr)
        of(cityZipParts) ==
            IF Len(cityZipParts) >= 2
            THEN [city |-> Join(SubSeq(cityZipParts, 1, Len(cityZipParts) - 1), <<" ">>),
                  zip |-> cityZipParts[Len(cityZipParts)]]
            ELSE [city |-> Undefined, zip |-> Undefined]
    IN IF Len(parts) > 1 THEN of(Split(<<Ws1>>, Trim(parts[2])))
       ELSE [city |-> Undefined, zip |-> Undefined]

\* ---- CobbScraper.scrape: $("table tr, .property-item, .tax-item") ----
\* cells: the text of the row's td / th elements
CobbTableRow(cells) ==
    LET row(parcelId, ownerName, addressInfo) ==
            IF /\ parcelId # <<>>
               /\ ownerName # <<>>
               /\ addressInfo # <<>>
               /\ ~Includes(ToLowerCase(parcelId), Chars("parcel"))
            THEN Emitted(parcelId, ownerName, parseAddress(addressInfo))
            ELSE Dropped
    IN IF Len(cells) >= 3 THEN row(Trim(cells[1]), Trim(cells[2]), Trim(cells[3]))
       ELSE Dropped
\* the record with its city, zip and tax_amount_due
CobbTableLien(cells) ==
    LET taxAmountText == IF Len(cells) > 3 THEN Trim(cells[4]) ELSE <<>>
        whole(row, cityZip) ==
            IF row.ok
            THEN [ok |-> TRUE,
                  lien |-> [parcel_id |-> row.lien.parcel_id,
                            owner_name |-> row.lien.owner_name,
                            property_address |-> row.lien.property_address,
                            city |-> cityZip.city,
                            zip |-> cityZip.zip,
                            tax_amount_due |-> IF taxAmountText # <<>>
                                               THEN parseCurrency(taxAmountText)
                                               ELSE Zero]]
            ELSE row
    IN whole(CobbTableRow(cells),
             IF Len(cells) >= 3 THEN parseAddressCityZip(Trim(cells[3]))
             ELSE [city |-> Undefined, zip |-> Undefined])

\* /(?:Parcel|PID)[\s:]*([A-Z0-9-]+)[\s\S]*?(?:Owner|Name)[\s:]*([^\n]+)[\s\S]*?
\*  (?:Address|Location)[\s:]*([^\n]+)[\s\S]*?\$[\d,]+\.?\d*/gi
\* parts 3, 7 and 11 are the capture groups 1, 2 and 3
LabelSep == AtLeast(Cls(Space \cup {":"}), 0)
ParcelLabel == LitsI(<<"Parcel", "PID">>)
OwnerLabel == LitsI(<<"Owner", "Name">>)
AddressLabel == LitsI(<<"Address", "Location">>)
IdChars == AtLeast(Cls(Alnum \cup {"-"}), 1)
RestOfLine == AtLeast(NotCls({"\n"}), 1)
DollarAmount ==
    Cat(<<Lit("$"), AtLeast(Cls(Digit \cup {","}), 1), Rep(Cls({"."}), 0, 1),
          AtLeast(D, 0)>>)
propertyPattern ==
    <<ParcelLabel, LabelSep, IdChars, LazyAtLeast(AnyChar, 0),
      OwnerLabel, LabelSep, RestOfLine, LazyAtLeast(AnyChar, 0),
      AddressLabel, LabelSep, RestOfLine, LazyAtLeast(AnyChar, 0), DollarAmount>>

\* CobbScraper.scrape lines 104-131: $(".content, .main-content, #main") text,
\* scanned only when the table rows gave nothing
CobbContentBlock(text) ==
    LET each(ms) ==
            [k \in 1..Len(ms) |->
                Emitted(Trim(Group(text, ms[k], 3)), Trim(Group(text, ms[k], 7)),
                        parseAddress(Trim(Group(text, ms[k], 11))))]
    IN each(ExecAll(propertyPattern, text))

\* ---- DeKalbScraper.scrape: rows of the tax sale table ----
DeKalbTableRow(cells) ==
    LET row(parcelId, ownerName, propertyAddress, taxAmountText) ==
            IF /\ parcelId # <<>>
               /\ ownerName # <<>>
               /\ propertyAddress # <<>>
               /\ taxAmountText # <<>>
               /\ parcelId # Chars("Parcel ID")
               /\ ownerName # Chars("Owner")
            THEN Emitted(parcelId, ownerName, parseAddress(propertyAddress))
            ELSE Dropped
    IN IF Len(cells) >= 15
       THEN row(Trim(cells[2]), Trim(cells[5]), Trim(cells[6]), Trim(cells[15]))
       ELSE Dropped

\* ---- ClaytonScraper.scrape lines 111-147: listing blocks ----
\* $(".tax-sale, .property-listing, .delinquent-list") text; every match of
\* the property pattern is searched again for its labelled fields
ClaytonListingBlock(text) ==
    LET field(whole, m) == Trim(Group(whole, m, 3))
        one(whole, parcelMatch, ownerMatch, addressMatch, amountMatch) ==
            IF parcelMatch # <<>> /\ ownerMatch # <<>> /\ addressMatch # <<>>
                 /\ amountMatch # <<>>
            THEN Emitted(field(whole, parcelMatch), field(whole, ownerMatch),
                         parseAddress(field(whole, addressMatch)))
            ELSE Dropped
        search(whole) ==
            one(whole, Match(<<ParcelLabel, LabelSep, IdChars>>, whole),
                Match(<<OwnerLabel, LabelSep, RestOfLine>>, whole),
                Match(<<AddressLabel, LabelSep, RestOfLine>>, whole),
                Match(<<DollarAmount>>, whole))
        each(ms) == [k \in 1..Len(ms) |-> search(Whole(text, ms[k]))]
    IN each(ExecAll(propertyPattern, text))

\* ---- ClaytonScraper.parseClaytonTableRow(rowText, saleDate) ----
\* (\d{5}[A-Z]\s+[A-Z]\d{3}(?:\s+[A-Z]\d{2})?)
ClaytonParcel ==
    Cat(<<Rep(D, 5, 5), Cls(Upper), Ws1, Cls(Upper), Rep(D, 3, 3),
          Rep(Cat(<<Ws1, Cls(Upper), Rep(D, 2, 2)>>), 0, 1)>>)
\* ([A-Z\s&]+(?:LLC|INC|CORP|JR|SR)?)
ClaytonOwner ==
    Cat(<<AtLeast(Cls(Upper \cup Space \cup {"&"}), 1),
          Rep(Lits(<<"LLC", "INC", "CORP", "JR", "SR">>), 0, 1)>>)
\* (\d+\s+[A-Z][A-Z\s]+(?:DR|RD|ST|...|CIRCLE)) with the i flag
ClaytonAddress ==
    Cat(<<AtLeast(D, 1), Ws1, Cls(Letter), AtLeast(Cls(Letter \cup Space), 1),
          LitsI(<<"DR", "RD", "ST", "AVE", "CT", "LN", "BLVD", "PKWY", "WAY", "CIR",
                  "TRCE", "VILLAGE", "DRIVE", "STREET", "ROAD", "AVENUE", "BOULEVARD",
                  "PARKWAY", "COURT", "CIRCLE">>)>>)

\* The callers pass no columnOrder, so the pattern-based branch runs.
parseClaytonTableRow(rowText) ==
    LET text(m) == IF m = <<>> THEN <<>> ELSE Trim(Group(rowText, m, 1))
        row(parcelId, ownerName, address) ==
            IF parcelId = <<>> \/ Len(parcelId) < 3 THEN Dropped
            ELSE Emitted(parcelId, ownerName, parseAddress(address))
        fields(parcelNameMatch, parcelOnlyMatch, addressMatch) ==
            row(IF parcelNameMatch # <<>> THEN text(parcelNameMatch)
                ELSE text(parcelOnlyMatch),
                IF parcelNameMatch # <<>> THEN Trim(Group(rowText, parcelNameMatch, 4))
                ELSE <<>>,
                text(addressMatch))
    IN fields(Match(<<ClaytonParcel, Ws1, Lit("/"), ClaytonOwner>>, rowText),
              Match(<<ClaytonParcel>>, rowText),
              Match(<<ClaytonAddress>>, rowText))

\* ClaytonScraper.parsePdf: the text after the header is cut at every parcel id,
\* and each piece of twenty characters or more is parsed as a row
ClaytonPdfRows(text) ==
    LET rowText(ms, k) == Trim(SubSeq(text, ms[k][1],
                                      IF k < Len(ms) THEN ms[k + 1][1] - 1 ELSE Len(text)))
        parse(kept) == [k \in 1..Len(kept) |-> parseClaytonTableRow(kept[k])]
        cut(ms) == parse(SelectSeq([k \in 1..Len(ms) |-> rowText(ms, k)],
                                   LAMBDA t : Len(t) >= 20))
    IN cut(ExecAll(<<ClaytonParcel>>, text))

\* ---- FultonScraper ----
Dash == Cls({"-"} \cup Space)                      \* [-\s]
Sep == Cat(<<Ws0, Dash, Ws0>>)                     \* \s*[-\s]\s*
\* \d{2} head sep \d{3,6} sep \d{2,4} sep \d{2,3} sep last, with the i flag
FultonParcelShape(head, last) ==
    Cat(<<Rep(D, 2, 2), head, Sep, Rep(D, 3, 6), Sep, Rep(D, 2, 4), Sep, Rep(D, 2, 3),
          Sep, last>>)
\* \d{2} head gap \d{4} gap \d{4} gap \d{3} gap \d
FultonFixedShape(head, gap) ==
    Cat(<<Rep(D, 2, 2), head, gap, Rep(D, 4, 4), gap, Rep(D, 4, 4), gap, Rep(D, 3, 3),
          gap, D>>)
OptLetter == Rep(Cls(Letter), 0, 1)                \* [A-Z]? with the i flag
OcrDigit == Cls(Digit \cup {"O", "I", "o", "i"})   \* [0-9OI] with the i flag

looksLikeParcelId(line) ==
    \E p \in {FultonParcelShape(OptLetter, D), FultonFixedShape(OptLetter, Ws1),
              FultonFixedShape(OptLetter, Lit("-")), FultonParcelShape(Cls(Alnum), D),
              FultonFixedShape(Cls(Alnum), Ws1),
              FultonParcelShape(Cls(Alnum), OcrDigit)} :
        Test(<<p>>, line)

\* A control character is written as the one-element text <<"\\x01">>; the
\* class [\x00-\x08\x0B\x0C\x0E-\x1F] of the characters cleanOcrText removes
Control == {"\\x01", "\\x1F"}

\* FultonScraper.cleanOcrText(text)
cleanOcrText(text) ==
    LET newlines(s) == ReplaceAll(<<Lit("\r")>>, ReplaceAll(<<Lit("\r\n")>>, s, <<"\n">>),
                                  <<"\n">>)
        \* .replace(/(\d)c(\d)/g, "$1" + d + "$2")
        put(s, d, ms) == [i \in 1..Len(s) |->
                            IF \E k \in 1..Len(ms) : ms[k][2] = i THEN d ELSE s[i]]
        between(s, c, d) == put(s, d, ExecAll(<<D, Lit(c), D>>, s))
        \* .replace(/[^\S\n]+/g, " ")
        spaces(s) == ReplaceAll(<<AtLeast(Cls(Space \ {"\n"}), 1)>>, s, <<" ">>)
        \* .replace(/[\x00-\x08\x0B\x0C\x0E-\x1F]/g, "")
        printable(s) == SelectSeq(s, LAMBDA c : c \notin Control)
    IN printable(spaces(between(between(between(newlines(text), "O", "0"), "l", "1"),
                                "I", "1")))
\* text.split("\n").map(line => line.trim()).filter(line => line.length > 0)
Lines(text) == NonEmpty(TrimAll(Split(<<Lit("\n")>>, text)))

\* a normalisation that leaves repeated dashes: .replace(/\s+/g, "-") alone
DashJoin_NoCollapse(s) == ReplaceAll(<<Ws1>>, s, <<"-">>)
\* .replace(/\s+/g, "-").replace(/--+/g, "-")
DashJoin(s) == ReplaceAll(<<AtLeast(Cls({"-"}), 2)>>, ReplaceAll(<<Ws1>>, s, <<"-">>), <<"-">>)
\* .replace(/O/g, "0").replace(/I/g, "1").replace(/l/g, "1")
FixOcr(s) ==
    [i \in 1..Len(s) |-> CASE s[i] = "O" -> "0" [] s[i] \in {"I", "l"} -> "1" [] OTHER -> s[i]]
\* /^\d{2}[A-Z0-9][-\s]?[A-Z0-9\s-]+$/i
parcelIdPattern ==
    <<Bol, Rep(D, 2, 2), Cls(Alnum), Rep(Dash, 0, 1),
      AtLeast(Cls(Alnum \cup Space \cup {"-"}), 1), Eol>>
\* the id the format check lets through: the id, else its cleaned form, else
\* none (<<>>)
ValidParcelId(parcelId) ==
    LET first(ok) == IF ok = <<>> THEN <<>> ELSE ok[1]
    IN first(SelectSeq(<<parcelId, FixOcr(DashJoin(parcelId))>>,
                       LAMBDA id : Test(parcelIdPattern, id)))

\* FultonScraper.parseFultonTableRow(rowText, saleDate)
parseFultonTableRow(rowText) ==
    LET \* lines 975-991: the checks on the validated fields, and the record
        checked(parcelId, situs) ==
            IF parcelId = <<>> \/ Len(parcelId) < 5 THEN Dropped
            ELSE IF situs = <<>> \/ Len(situs) < 3 THEN Dropped
            ELSE Emitted(ReplaceAll(<<Ws1>>, parcelId, <<"-">>), <<>>, parseAddress(situs))
        \* lines 955-973: an id of no valid form returns null
        validated(valid, situs) ==
            IF valid = <<>> THEN Dropped ELSE checked(valid, situs)
        \* lines 924-945: the columns are assigned by the number of parts
        fields(parts, firstIsParcel) ==
            IF Len(parts) >= 3 THEN <<parts[2], Trim(JoinFrom(parts, 3))>>
            ELSE IF firstIsParcel THEN <<parts[1], Trim(parts[2])>>
            ELSE <<parts[2], <<>>>>
        named(f) == validated(ValidParcelId(DashJoin(f[1])), f[2])
        assigned(parts) ==
            IF Len(parts) < 2 THEN Dropped
            ELSE named(fields(parts, looksLikeParcelId(parts[1])))
        \* lines 866-916: the row is cut around the parcel id found in it
        \* /(\d[\d\s-]{3,10}\d)\s*$/
        withSale(parcelId, situs, beforeParcel, saleNumberMatch) ==
            IF saleNumberMatch # <<>>
            THEN <<ReplaceAll(<<Ws1>>, Whole(beforeParcel, saleNumberMatch), <<"-">>),
                   parcelId, situs>>
            ELSE <<parcelId, situs>>
        around(parcelId, beforeParcel, afterParcel) ==
            IF Len(afterParcel) < 3 THEN <<>>                  \* return null
            ELSE withSale(parcelId, afterParcel, beforeParcel,
                          Match(<<D, Rep(Cls(Digit \cup Space \cup {"-"}), 3, 10), D,
                                  Ws0, Eol>>, beforeParcel))
        byPattern(parcelMatch) ==
            IF parcelMatch = <<>> THEN <<>>                    \* return null
            ELSE around(DashJoin(Whole(rowText, parcelMatch)),
                        Trim(SubSeq(rowText, 1, parcelMatch[1] - 1)),
                        Trim(SubSeq(rowText, parcelMatch[2], Len(rowText))))
        \* lines 842-859: pipe, then tab, then three or more spaces
        spaced == Test(<<AtLeast(Cls(Space), 3)>>, rowText)
        delimiter == IF Includes(rowText, <<"|">>) THEN Lit("|")
                     ELSE IF Includes(rowText, <<"\t">>) THEN Lit("\t")
                     ELSE AtLeast(Cls(Space), 3)
    IN assigned(IF Includes(rowText, <<"|">>) \/ Includes(rowText, <<"\t">>) \/ spaced
                THEN NonEmpty(TrimAll(Split(<<delimiter>>, rowText)))
                ELSE byPattern(Match(<<FultonParcelShape(Cls(Alnum), OcrDigit)>>, rowText)))

\* FultonScraper.parseParcelOnlyLine(line, saleDate)
parseParcelOnlyLine(line) ==
    LET record(valid, afterParcel) ==
            IF valid = <<>> THEN Dropped
            ELSE Emitted(valid, <<>>, IF Len(afterParcel) > 3 THEN afterParcel ELSE <<>>)
        found(parcelMatch) ==
            IF parcelMatch = <<>> THEN Dropped
            ELSE record(ValidParcelId(DashJoin(Whole(line, parcelMatch))),
                        Trim(SubSeq(line, parcelMatch[2], Len(line))))
    IN found(Match(<<FultonParcelShape(OptLetter, D)>>, line))

\* FultonScraper.parseManualLine(line, saleDate)
parseManualLine(line) ==
    LET record(parts, at) ==
            IF at = 0 THEN Dropped                             \* !parcelId
            ELSE Emitted(DashJoin(parts[at]), <<>>, Trim(JoinFrom(parts, at + 1)))
        \* /^\d{4}-\d{5}$/
        place(hasSale, ids) ==
            IF hasSale THEN (IF 2 \in ids THEN 2 ELSE 0)
            ELSE IF ids = {} THEN 0
            ELSE CHOOSE i \in ids : \A j \in ids : i <= j
        parsed(parts) ==
            IF Len(parts) < 2 THEN Dropped
            ELSE record(parts,
                        place(Test(<<Bol, Rep(D, 4, 4), Lit("-"), Rep(D, 5, 5), Eol>>,
                                   parts[1]),
                              {i \in 1..Len(parts) : looksLikeParcelId(parts[i])}))
    IN parsed(NonEmpty(Split(<<Ws1>>, line)))

\* ---- GwinnettScraper ----
\* a literal text under the i flag, as new RegExp(escapeRegex(text), 'i') matches it
TextI(chars) == [t |-> "lits", words |-> <<ToLowerCase(chars)>>, fold |-> TRUE]
GwinnettPin == Cat(<<Lit("R"), AtLeast(D, 1), Ws1, AtLeast(D, 1), Rep(Cls(Upper), 0, 1)>>)
\* [\d,]+\.\d{2} and [\d,]+\.\d+
Amount(atLeast) ==
    Cat(<<AtLeast(Cls(Digit \cup {","}), 1), Lit("."),
          IF atLeast THEN AtLeast(D, 1) ELSE Rep(D, 2, 2)>>)

\* GwinnettScraper.cleanAddressFromName(address, ownerName).  A name variant
\* that the simple pattern ^name\s+ strips with a digit left in front is one
\* that ^name\s+(\d+) has matched before, so the simple pattern restores the
\* address every time it is tried.
cleanAddressFromName(address, ownerName) ==
    LET word == Cat(<<Cls(Letter), AtLeast(Cls(Letter), 1)>>)
        \* /^([A-Z][a-z]+(?:\s+[A-Z][a-z]+){0,2})\s+(\d+\s+[A-Z])/i
        strip(cleaned, nameMatch) ==
            IF nameMatch # <<>>
            THEN Trim(SubSeq(cleaned,
                             IndexOf(Whole(cleaned, nameMatch), Group(cleaned, nameMatch, 4)),
                             Len(cleaned)))
            ELSE cleaned
        tidy(cleaned) ==
            strip(cleaned,
                  Match(<<Bol, Cat(<<word, Rep(Cat(<<Ws1, word>>), 0, 2)>>), Ws1,
                          Cat(<<AtLeast(D, 1), Ws1, Cls(Letter)>>)>>, cleaned))
        \* cleaned.replace(namePattern, '$1').trim() for the first variant found
        remove(trimmed, hits) ==
            IF hits = <<>> THEN trimmed
            ELSE Trim(SubSeq(trimmed, hits[1][4], Len(trimmed)))
        \* ^name\s+(\d+) for each variant of more than one character
        tried(trimmed, variants) ==
            SelectSeq([k \in 1..3 |->
                          IF Len(variants[k]) > 1
                          THEN Match(<<Bol, TextI(variants[k]), Ws1, AtLeast(D, 1)>>, trimmed)
                          ELSE <<>>],
                      LAMBDA b : b # <<>>)
        ownerNameVariations(words) ==
            <<ownerName, words[1],
              JoinFrom(SubSeq(words, 1, IF Len(words) < 2 THEN Len(words) ELSE 2), 1)>>
    IN tidy(remove(Trim(address),
                   tried(Trim(address),
                         ownerNameVariations(Split(<<Lit(" ")>>, ownerName)))))

\* GwinnettScraper.parseTableRow(rowText, saleDate)
parseTableRow(rowText) ==
    LET \* lines 1434-1476
        emit(pin, ownerName, address) ==
            IF Len(address) < 3 THEN Dropped ELSE Emitted(pin, ownerName, address)
        checked(pin, ownerName, situs, amountText) ==
            IF ~Test(<<Bol, GwinnettPin>>, pin) THEN Dropped
            ELSE IF ~Test(<<Bol, Amount(FALSE), Eol>>, amountText) THEN Dropped
            ELSE IF Len(ownerName) < 2 THEN Dropped
            ELSE emit(pin, ownerName, parseAddress(cleanAddressFromName(situs, ownerName)))
        finish(parts) ==
            IF Len(parts) < 4 THEN Dropped
            ELSE checked(Trim(parts[1]), Trim(parts[2]), Trim(parts[3]), Trim(parts[4]))
        \* lines 1409-1431: owner name and address are told apart
        halves(pin, beforeAmount, amountText, cutAt) ==
            <<pin, Trim(SubSeq(beforeAmount, 1, cutAt)),
              Trim(SubSeq(beforeAmount, cutAt + 1, Len(beforeAmount))), amountText>>
        split(pin, beforeAmount, amountText, addressMatch) ==
            IF addressMatch # <<>>
            THEN <<pin,
                   Trim(SubSeq(beforeAmount, 1,
                               IndexOf(beforeAmount, Whole(beforeAmount, addressMatch)) - 1)),
                   Trim(Whole(beforeAmount, addressMatch)), amountText>>
            ELSE halves(pin, beforeAmount, amountText,
                        IF LastIndexOf(beforeAmount, <<" ", " ">>) - 1 > 0
                        THEN LastIndexOf(beforeAmount, <<" ", " ">>) - 1
                        ELSE Len(beforeAmount) \div 2)
        \* /(\d+\s+[A-Z\s]+(?:CIR|DR|ST|RD|CT|WAY|PKWY|BLVD|AVE|LN|PL|TRL|RUN|CT|WAY))/i
        before(pin, beforeAmount, amountText) ==
            split(pin, beforeAmount, amountText,
                  Match(<<Cat(<<AtLeast(D, 1), Ws1, AtLeast(Cls(Letter \cup Space), 1),
                                LitsI(<<"CIR", "DR", "ST", "RD", "CT", "WAY", "PKWY", "BLVD",
                                        "AVE", "LN", "PL", "TRL", "RUN", "CT", "WAY">>)>>)>>,
                        beforeAmount))
        \* /([\d,]+\.\d{2})\s*$/
        amount(pin, afterPin, amountMatch) ==
            IF amountMatch = <<>> THEN <<>>                    \* return null
            ELSE before(pin,
                        Trim(SubSeq(afterPin, 1,
                                    LastIndexOf(afterPin, Group(afterPin, amountMatch, 1)) - 1)),
                        Group(afterPin, amountMatch, 1))
        after(pin, afterPin) ==
            amount(pin, afterPin, Match(<<Amount(FALSE), Ws0, Eol>>, afterPin))
        \* /^(R\d+\s+\d+[A-Z]?)/
        pinned(pinMatch) ==
            IF pinMatch = <<>> THEN <<>>                       \* return null
            ELSE after(Trim(Group(rowText, pinMatch, 2)),
                       Trim(SubSeq(rowText, pinMatch[3], Len(rowText))))
    IN finish(IF Includes(rowText, <<"|">>) THEN TrimAll(Split(<<Lit("|")>>, rowText))
              ELSE pinned(Match(<<Bol, GwinnettPin>>, rowText)))

\* GwinnettScraper.parsePdf, the scan of the whole text when no row parsed:
\* /(R\d+\s+\d+[A-Z]?)\s+\|?\s*([^|]+?)\s+\|?\s*([^|]+?)\s+\|?\s*([\d,]+\.\d+)/g
GwinnettRowScan(text) ==
    LET bar == Cat(<<Ws1, Rep(Lit("|"), 0, 1), Ws0>>)
        cell == LazyAtLeast(NotCls({"|"}), 1)
        one(pin, ownerName, situs, amountText) ==
            IF pin # <<>> /\ ownerName # <<>> /\ situs # <<>> /\ amountText # <<>>
            THEN Emitted(pin, ownerName, parseAddress(cleanAddressFromName(situs, ownerName)))
            ELSE Dropped
        each(ms) ==
            [k \in 1..Len(ms) |->
                one(Trim(Group(text, ms[k], 1)), Trim(Group(text, ms[k], 3)),
                    Trim(Group(text, ms[k], 5)), Trim(Group(text, ms[k], 7)))]
    IN each(ExecAll(<<GwinnettPin, bar, cell, bar, cell, bar, Amount(TRUE)>>, text))

(***************************************************************************)
(* Extraction: one row, line or text block of a published list is given to *)
(* the extractor of its scraper.                                           *)
(***************************************************************************)
MaxListings == 2     \* most listings in one text block or document

Row(layout, sale, parcel, owner, address, amount) ==
    [layout |-> Chars(layout), sale |-> Chars(sale), parcel |-> Chars(parcel),
     owner |-> Chars(owner), address |-> Chars(address), amount |-> Chars(amount)]
Rows(layouts, sales, parcels, owners, addresses, amounts) ==
    {Row(l, s, p, o, a, m) : l \in layouts, s \in sales, p \in parcels, o \in owners,
                             a \in addresses, m \in amounts}

\* <tr> of four <td>: parcel, owner, address, amount
CobbRows ==
    Rows({""}, {""}, {"", " ", "17-0123", "Parcel ID"}, {"", "J SMITH"},
         {"", "100 MAIN ST, ATLANTA 30303"}, {"$1,250.00"})
\* a page with one table: the header row and up to MaxListings data rows
CobbHeaderRow == Row("", "", "Parcel", "Owner", "Address", "Tax Due")
CobbPageRows ==
    Rows({""}, {""}, {"12-345", "17-0123"}, {"J Smith"},
         {"100 Main St Atlanta 30303", "100 Main St, Atlanta 30303", "100 Main St,Atlanta",
          "100 Main St, Stone Mountain 30083, GA"},
         {"$1,250.00", "", "n/a"})
CobbPages == {<<CobbHeaderRow>> \o rows : rows \in SeqsUpTo(CobbPageRows, MaxListings)}
\* <tr> of the tax sale table: fifteen <td>
DeKalbRows ==
    Rows({""}, {""}, {"", " ", "15 123 01 001", "Parcel ID"}, {"", "J SMITH", "Owner"},
         {"", "100 MAIN ST"}, {"", "1,250.00"})
\* a listing in running text: labelled parcel, owner and address, then the amount
Listings ==
    Rows({"Owner", "Owner Name"}, {""}, {"", "17-0123"}, {"J SMITH"}, {"1 ELM ST"},
         {"$1,250.00"})
\* a line of the Fulton sale list: sale number, parcel id, situs
FultonLines ==
    Rows({" | ", "\t", "   ", " "}, {"", "0226-54580"},
         {"", "09F-2406-0104-012-1", "14 -0184-0008-002-7"}, {""},
         {"", "100 MAIN ST SW", "100 MAIN ST   REAR"}, {""})
\* a pasted line: sale number, parcel id, address
ManualLines ==
    Rows({" "}, {"", "0226-54580"}, {"", "14-0184-0008-002-7", "09F-2406-0104-012-1"},
         {""}, {"", "100 MAIN ST SW"}, {""})
\* a row of the Clayton list: parcel / owner, location, bid
ClaytonRows ==
    Rows({" "}, {""}, {"", "12345A B123", "12345A B123 C45"}, {"", "JOHN DOE"},
         {"", "10 CAMP DR"}, {"1,250.00"})
\* a row of the Gwinnett list: PIN, owner, situs, amount
GwinnettRows ==
    Rows({" | ", " "}, {""}, {"", "R5001 123", "R5001 123A"}, {"", "THAI H"},
         {"", "596 CHESTERFIELD DR", "THAI H 596 CHESTERFIELD DR"}, {"1,234.56"})

Sources ==
    {"Cobb page", "Cobb table", "Cobb content", "DeKalb table", "Clayton listing", "Clayton pdf",
     "Fulton header", "Fulton scan", "Fulton manual", "Gwinnett rows", "Gwinnett scan"}
RowsOf(src) ==
    CASE src = "Cobb table" -> CobbRows
      [] src = "DeKalb table" -> DeKalbRows
      [] src \in {"Cobb content", "Clayton listing"} -> Listings
      [] src = "Clayton pdf" -> ClaytonRows
      [] src \in {"Fulton header", "Fulton scan"} -> FultonLines
      [] src = "Fulton manual" -> ManualLines
      [] src = "Gwinnett rows" -> GwinnettRows
      [] src = "Gwinnett scan" ->
            {r \in GwinnettRows : r.owner # <<>> /\ r.address = Chars("596 CHESTERFIELD DR")}
\* the texts hold up to MaxListings rows, the other sources get one row at a time
InputsOf(src) ==
    IF src = "Cobb page" THEN CobbPages
    ELSE IF src \in {"Cobb content", "Clayton listing", "Clayton pdf", "Gwinnett scan"}
    THEN SeqsUpTo(RowsOf(src), MaxListings) \ {<<>>}
    ELSE {<<r>> : r \in RowsOf(src)}

\* what the page or document shows for the rows
CellsOf(r) == <<r.parcel, r.owner, r.address, r.amount>>
DeKalbCells(r) ==
    [k \in 1..15 |-> CASE k = 2 -> r.parcel [] k = 5 -> r.owner [] k = 6 -> r.address
                       [] k = 15 -> r.amount [] OTHER -> Chars("x")]
ListingText(r) ==
    Chars("Parcel: ") \o r.parcel \o Chars("\n") \o r.layout \o Chars(": ") \o r.owner
        \o Chars("\nAddress: ") \o r.address \o Chars("\n") \o r.amount
LineOf(r, fields) == Trim(Join(fields, r.layout))
FultonLine(r) == LineOf(r, <<r.sale, r.parcel, r.address>>)
ClaytonLine(r) == LineOf(r, <<r.parcel, <<"/">> \o r.owner, r.address, r.amount>>)
GwinnettLine(r) == LineOf(r, <<r.parcel, r.owner, r.address, r.amount>>)
TextOf(rows, render(_)) == Join([k \in 1..Len(rows) |-> render(rows[k])], <<"\n">>)

\* FultonScraper.parsePdf lines 490-534: the line of a one-line text as the row
\* parsers receive it, or <<>> when no line is left
PdfLine(text) ==
    LET only(lines) == IF lines = <<>> THEN <<>> ELSE lines[1]
    IN only(Lines(cleanOcrText(text)))

\* FultonScraper.parsePdf, a line below a table header
FultonHeaderRow(line) ==
    LET lower == ToLowerCase(line)
        has(word) == Includes(lower, Chars(word))
        skipped ==
            \/ Trim(line) = <<>>
            \/ Test(<<Bol, AtLeast(Cls(Space \cup {"|"}), 1), Eol>>, line)
            \/ has("judicial") /\ (has("delinquent") \/ has("foreclosure"))
            \/ has("sheriff") /\ has("sale") /\ has("number")
            \/ has("of") /\ has("2")
            \/ Test(<<Bol, AtLeast(D, 1), Ws1, LitI("OF"), Ws1, AtLeast(D, 1), Eol>>, line)
    IN IF skipped THEN Dropped ELSE parseFultonTableRow(line)

\* FultonScraper.parsePdf, the scan of every line when no header gave a row: a
\* line that opens with a sale number is parsed as a record when the next record
\* begins, a line with a parcel id at once, by the row parser and then by the
\* parcel-only parser
FultonScanLine(line) ==
    LET lower == ToLowerCase(line)
        skipped ==
            \/ Trim(line) = <<>>
            \/ Includes(lower, Chars("judicial"))
            \/ Includes(lower, Chars("sheriff's"))
            \/ Test(<<Bol, AtLeast(D, 1), Ws1, LitI("OF"), Ws1, AtLeast(D, 1), Eol>>, line)
        \* /^(\d{4}-\d{5})\s+/
        saleNumberMatch == Test(<<Bol, Rep(D, 4, 4), Lit("-"), Rep(D, 5, 5), Ws1>>, line)
        record(lien) ==
            IF saleNumberMatch THEN lien
            ELSE IF ~looksLikeParcelId(line) THEN Dropped
            ELSE IF lien.ok THEN lien
            ELSE parseParcelOnlyLine(Trim(line))
    IN IF skipped THEN Dropped ELSE record(parseFultonTableRow(Trim(line)))

\* FultonScraper.processManualInput, one pasted line
FultonManualLine(line) ==
    LET lower == ToLowerCase(line)
        has(word) == Includes(lower, Chars(word))
        skipped ==
            \/ has("sale number") \/ has("tax parcel") \/ has("situs") \/ has("judicial")
            \/ Test(<<Bol, AtLeast(D, 1), Ws1, LitI("OF"), Ws1, AtLeast(D, 1), Eol>>, line)
    IN IF Trim(line) = <<>> \/ skipped THEN Dropped ELSE parseManualLine(Trim(line))


ExtractFresh ==
    /\ source \in Sources
    /\ rowsIn \in InputsOf(source)
    /\ rowsOut = <<>>
    /\ extractPc = "ready"

\* the rows of src are extracted: found holds what each row, or each match in
\* the text, gave
Extracted(src, found) ==
    /\ extractPc = "ready"
    /\ source = src
    /\ rowsOut' = found
    /\ extractPc' = "done"
    /\ UNCHANGED <<source, rowsIn, outsideExtract>>

\* the each() over the rows of the page's table
CobbPage ==
    Extracted("Cobb page", [k \in 1..Len(rowsIn) |-> CobbTableLien(CellsOf(rowsIn[k]))])
CobbTable == Extracted("Cobb table", <<CobbTableRow(CellsOf(rowsIn[1]))>>)
CobbContent == Extracted("Cobb content", CobbContentBlock(TextOf(rowsIn, ListingText)))
DeKalbTable == Extracted("DeKalb table", <<DeKalbTableRow(DeKalbCells(rowsIn[1]))>>)
ClaytonListing ==
    Extracted("Clayton listing", ClaytonListingBlock(TextOf(rowsIn, ListingText)))
ClaytonPdf == Extracted("Clayton pdf", ClaytonPdfRows(TextOf(rowsIn, ClaytonLine)))
FultonHeader == Extracted("Fulton header", <<FultonHeaderRow(PdfLine(FultonLine(rowsIn[1])))>>)
FultonScan == Extracted("Fulton scan", <<FultonScanLine(PdfLine(FultonLine(rowsIn[1])))>>)
FultonManual == Extracted("Fulton manual", <<FultonManualLine(FultonLine(rowsIn[1]))>>)
GwinnettRowsParsed ==
    Extracted("Gwinnett rows", <<parseTableRow(GwinnettLine(rowsIn[1]))>>)
GwinnettScan == Extracted("Gwinnett scan", GwinnettRowScan(TextOf(rowsIn, GwinnettLine)))

ExtractNext ==
    \/ CobbPage
    \/ CobbTable
    \/ CobbContent
    \/ DeKalbTable
    \/ ClaytonListing
    \/ ClaytonPdf
    \/ FultonHeader
    \/ FultonScan
    \/ FultonManual
    \/ GwinnettRowsParsed
    \/ GwinnettScan

(***************************************************************************)
(* ScrapingService.scrapeAllCounties (src/unnamed/part_011)                *)
(***************************************************************************)
\* private scrapers = [new DeKalbScraper(1, ...), ..., new ClaytonScraper(5, ...)]
Scrapers == <<"DeKalb", "Gwinnett", "Cobb", "Fulton", "Clayton">>

\* how a scraper's scrape() can settle: it resolves with the saved liens, or
\* rejects with `<County> scraping failed: <cause>`
ScrapeSettlements ==
    {[ok |-> TRUE, count |-> n, cause |-> ""] : n \in 0..MaxLiens}
        \cup {[ok |-> FALSE, count |-> 0, cause |-> c] :
                 c \in {"page request failed", "scrape log insert failed"}}

SvcFresh ==
    /\ svcPc = "idle"
    /\ svcAt = 0
    /\ scraping = {}
    /\ attempted = <<>>
    /\ results = <<>>
    /\ svcResult = "none"

\* scrapeAllCounties(): const results = []; the for loop begins
ScrapeAllCall ==
    /\ svcPc = "idle"
    /\ svcPc' = "scrapers"
    /\ svcAt' = 1
    /\ results' = <<>>
    /\ attempted' = <<>>
    /\ UNCHANGED <<scraping, svcResult>>
    /\ UNCHANGED outsideSvc

\* for (const scraper of this.scrapers) { try { ... await scraper.scrape()
ScraperCall ==
    /\ svcPc = "scrapers"
    /\ svcAt <= Len(Scrapers)
    /\ scraping' = scraping \cup {Scrapers[svcAt]}
    /\ attempted' = Append(attempted, [county |-> Scrapers[svcAt], settled |-> "pending"])
    /\ svcPc' = "await_scrape"
    /\ UNCHANGED <<svcAt, results, svcResult>>
    /\ UNCHANGED outsideSvc

\* the loop body without its try/catch: a rejected scrape() ends scrapeAllCounties
ScraperSettle_NoCatch(how) ==
    /\ svcPc = "await_scrape"
    /\ scraping' = scraping \ {Scrapers[svcAt]}
    /\ attempted' = [attempted EXCEPT ![Len(attempted)].settled =
                         IF how.ok THEN "resolved" ELSE "rejected"]
    /\ IF how.ok
       THEN /\ results' = Append(results, [county |-> Scrapers[svcAt], success |-> TRUE,
                                           count |-> how.count, error |-> <<>>])
            /\ svcAt' = svcAt + 1
            /\ svcPc' = "scrapers"
            /\ UNCHANGED svcResult
       ELSE /\ svcPc' = "done"
            /\ svcResult' = "rejected"
            /\ UNCHANGED <<svcAt, results>>
    /\ UNCHANGED outsideSvc

\* scrape() settles: results.push({ county, success: true, count }) or, in the
\* catch, results.push({ county, success: false, error: error.message })
ScraperSettle(how) ==
    /\ svcPc = "await_scrape"
    /\ scraping' = scraping \ {Scrapers[svcAt]}
    /\ attempted' = [attempted EXCEPT ![Len(attempted)].settled =
                         IF how.ok THEN "resolved" ELSE "rejected"]
    /\ results' = Append(results,
          IF how.ok
          THEN [county |-> Scrapers[svcAt], success |-> TRUE, count |-> how.count,
                error |-> <<>>]
          ELSE [county |-> Scrapers[svcAt], success |-> FALSE, count |-> 0,
                error |-> <<Scrapers[svcAt], " scraping failed: ", how.cause>>])
    /\ svcAt' = svcAt + 1
    /\ svcPc' = "scrapers"
    /\ UNCHANGED svcResult
    /\ UNCHANGED outsideSvc

\* the first loop is over; the loop over the timestamps begins
ScrapersDone ==
    /\ svcPc = "scrapers"
    /\ svcAt > Len(Scrapers)
    /\ svcPc' = "timestamps"
    /\ svcAt' = 1
    /\ UNCHANGED <<scraping, attempted, results, svcResult>>
    /\ UNCHANGED outsideSvc

\* try { await supabaseAdmin.from("counties").update(...).eq("id", countyId) }
\* catch { console.warn }: whatever the request does, the loop goes on
TimestampUpdate(outcome) ==
    /\ svcPc = "timestamps"
    /\ svcAt <= Len(Scrapers)
    /\ svcAt' = svcAt + 1
    /\ UNCHANGED <<svcPc, scraping, attempted, results, svcResult>>
    /\ UNCHANGED outsideSvc

ScrapeAllReturn ==
    /\ svcPc = "timestamps"
    /\ svcAt > Len(Scrapers)
    /\ svcPc' = "done"
    /\ svcResult' = "resolved"
    /\ UNCHANGED <<svcAt, scraping, attempted, results>>
    /\ UNCHANGED outsideSvc

SvcNext ==
    \/ ScrapeAllCall
    \/ ScraperCall
    \/ \E how \in ScrapeSettlements : ScraperSettle(how)
    \/ ScrapersDone
    \/ \E o \in RequestOutcomes : TimestampUpdate(o)
    \/ ScrapeAllReturn

(***************************************************************************)
(* The text normalisers on their own: a function is given an argument and  *)
(* applied, and applied again to what it returned.                         *)
(***************************************************************************)
MaxOcrLen == 4       \* longest OCR text over the whole alphabet
MaxOcrRun == 5       \* longest OCR text made of digits and look-alike letters
MaxAmountLen == 4    \* longest amount text

\* the characters of an OCR text: digits, the look-alike letters O, l and I,
\* another letter, white space, line ends and a control character
OcrRunChars == {"1", "O", "l", "I"}
OcrChars == OcrRunChars \cup {"A", " ", "\t", "\n", "\r", "\\x01"}
OcrTexts == SeqsUpTo(OcrChars, MaxOcrLen) \cup [1..MaxOcrRun -> OcrRunChars]

\* a parcel id as the list shows it: its segments, each two set apart by a run
\* of dashes and white space
IdSegments == {<<"14", "0184", "0008", "002", "7">>, <<"09F", "2406", "0104", "012", "1">>}
IdGaps == {"-", " ", "  ", " -", "- ", "--", "\t"}
IdTextsOver(gaps) ==
    {Chars(seg[1]) \o Chars(g[1]) \o Chars(seg[2]) \o Chars(g[2]) \o Chars(seg[3])
         \o Chars(g[3]) \o Chars(seg[4]) \o Chars(g[4]) \o Chars(seg[5]) :
     seg \in IdSegments, g \in [1..4 -> gaps]}
IdTexts == IdTextsOver(IdGaps)
\* the identifiers given to the detection and to the shape check
ShapeTexts == IdTextsOver({"-", " ", " -"})

AmountChars == {"$", ",", " ", "-", "+", ".", "0", "5", "(", "N"}
AmountTexts == SeqsUpTo(AmountChars, MaxAmountLen)

TextFunctions == {"cleanOcrText", "normalizeParcelId", "parseCurrency", "parcelIdShape"}
ArgsOf(f) ==
    CASE f = "cleanOcrText" -> OcrTexts
      [] f = "normalizeParcelId" -> IdTexts
      [] f = "parseCurrency" -> AmountTexts
      [] f = "parcelIdShape" -> ShapeTexts

TextFresh ==
    /\ fn \in TextFunctions
    /\ arg \in ArgsOf(fn)
    /\ returned = <<>>

\* f is applied to the argument, then to its own result
Applied(f, apply(_)) ==
    /\ fn = f
    /\ Len(returned) < 2
    /\ returned' = Append(returned, apply(IF returned = <<>> THEN arg ELSE returned[1]))
    /\ UNCHANGED <<fn, arg, outsideText>>

CleanOcrText == Applied("cleanOcrText", cleanOcrText)
\* parcelId.replace(/\s+/g, "-").replace(/--+/g, "-")
NormalizeParcelId == Applied("normalizeParcelId", DashJoin)
ParseCurrency ==
    /\ fn = "parseCurrency"
    /\ returned = <<>>
    /\ returned' = <<parseCurrency(arg)>>
    /\ UNCHANGED <<fn, arg, outsideText>>

\* the identifier of a line is detected (looksLikeParcelId), extracted by the
\* pattern of parseFultonTableRow and by that of parseParcelOnlyLine, and what
\* was extracted is normalised and given to the shape check of the parser
ParcelIdShape ==
    /\ fn = "parcelIdShape"
    /\ returned = <<>>
    /\ LET checked(parcelMatch) ==
               IF parcelMatch = <<>> THEN [found |-> FALSE, valid |-> FALSE]
               ELSE [found |-> TRUE,
                     valid |-> ValidParcelId(DashJoin(Whole(arg, parcelMatch))) # <<>>]
       IN returned' =
              <<[looksLikeParcelId |-> looksLikeParcelId(arg),
                 tableRow |-> checked(Match(<<FultonParcelShape(Cls(Alnum), OcrDigit)>>, arg)),
                 parcelOnly |-> checked(Match(<<FultonParcelShape(OptLetter, D)>>, arg))]>>
    /\ UNCHANGED <<fn, arg, outsideText>>

TextNext ==
    \/ ParcelIdShape
    \/ CleanOcrText
    \/ NormalizeParcelId
    \/ ParseCurrency

(***************************************************************************)
(* FultonScraper.parsePdf on a whole document: the lines of the cleaned    *)
(* text, the table headers found in them, the rows below each header, and  *)
(* the scan of every line when the headers gave no record.  Line numbers   *)
(* count from 0 as in the code.                                            *)
(***************************************************************************)
MaxSectionRows == 2  \* most lines below one table header
MaxScanLines == 3    \* most lines of a document without a header

HeaderText == Chars("SHERIFF'S SALE NUMBER TAX PARCEL ID SITUS")
SaleRow == Chars("0226-54580 09F-2406-0104-012-1 100 MAIN ST SW")
ParcelRow == Chars("09F-2406-0104-013-9 200 OAK ST")
Continuation == Chars("APT 2")
PageNumber == Chars("1 OF 2")
\* a row whose street name holds the letters "of"
HoffmanRow == Chars("0226-54581 09F-2406-0104-014-2 100 HOFFMAN ST")
\* a text of one line without a header
BlobText == Chars("14-0184-0008-002-7 0 BOULEVARD GRANADA SW")

\* the documents: up to two sections, each a header and the lines below it,
\* after at most one line; and documents without a header
SectionBlocks == SeqsUpTo({SaleRow, ParcelRow, PageNumber}, MaxSectionRows)
PdfDocuments ==
    {pre \o <<HeaderText>> \o b1 : pre \in SeqsUpTo({ParcelRow}, 1), b1 \in SectionBlocks}
        \cup {pre \o <<HeaderText>> \o b1 \o <<HeaderText>> \o b2 :
                 pre \in SeqsUpTo({ParcelRow}, 1), b1 \in SectionBlocks, b2 \in SectionBlocks}
        \cup (SeqsUpTo({SaleRow, ParcelRow, Continuation, PageNumber}, MaxScanLines) \ {<<>>})
        \cup {Lines(cleanOcrText(BlobText))}
        \cup {<<HeaderText>> \o b : b \in SeqsUpTo({SaleRow, HoffmanRow}, MaxSectionRows)}

\* lines[i] of the code
LineAt(i) == docLines[i + 1]

\* lines 548-589: a line is a header when it names two of the three columns,
\* or names one and the lines i..i+2 together name two
IsHeaderAt(lines, i) ==
    LET count(flags) == Cardinality({k \in 1..3 : flags[k]})
        own(line) ==
            count(<<Includes(line, Chars("sheriff"))
                        \/ (Includes(line, Chars("sale")) /\ Includes(line, Chars("number"))),
                    Includes(line, Chars("parcel"))
                        \/ (Includes(line, Chars("tax"))
                               /\ (Includes(line, Chars("id")) \/ Includes(line, Chars("1d")))),
                    Includes(line, Chars("situs")) \/ Includes(line, Chars("sttus"))
                        \/ Includes(line, Chars("s1tus"))>>)
        combined(text) ==
            count(<<Includes(text, Chars("sheriff"))
                        \/ (Includes(text, Chars("sale")) /\ Includes(text, Chars("number"))),
                    Includes(text, Chars("parcel")),
                    Includes(text, Chars("situs")) \/ Includes(text, Chars("sttus"))>>)
        decide(matchCount) ==
            \/ matchCount >= 2
            \/ /\ matchCount = 1
               /\ combined(ToLowerCase(Join(SubSeq(lines, i + 1,
                                                   IF i + 3 < Len(lines) THEN i + 3
                                                   ELSE Len(lines)), <<" ">>))) >= 2
    IN decide(own(ToLowerCase(lines[i + 1])))
FindHeaders(lines) ==
    SelectSeq([k \in 1..Len(lines) |-> k - 1], LAMBDA i : IsHeaderAt(lines, i))

\* lines 600-604: the line of the next header, or lines.length
NextHeaderIndex_DocumentEnd == Len(docLines)
NextHeaderIndex ==
    IF headerIdx < Len(headerIndices) - 1 THEN headerIndices[headerIdx + 2]
    ELSE Len(docLines)

\* lines 611-656: where the rows of the section begin
RECURSIVE StartIndexFrom(_, _, _, _)
StartIndexFrom(lines, i, limit, startIndex) ==
    LET has(line, word) == Includes(line, Chars(word))
        title(line) ==
            \/ has(line, "judicial") /\ (has(line, "delinquent") \/ has(line, "foreclosure"))
            \/ has(line, "sheriff") /\ has(line, "sale") /\ has(line, "number")
            \/ Test(<<Bol, AtLeast(Cls(Space \cup {"|"}), 1), Eol>>, line)
            \/ has(line, "tax parcel") \/ has(line, "sale number") \/ has(line, "situs")
        step(line) ==
            IF title(line) THEN StartIndexFrom(lines, i + 1, limit, i + 1)
            ELSE IF looksLikeParcelId(line) THEN i
            ELSE StartIndexFrom(lines, i + 1, limit, startIndex)
    IN IF i >= limit THEN startIndex ELSE step(ToLowerCase(lines[i + 1]))

DocFresh ==
    /\ docLines \in PdfDocuments
    /\ docPc = "start"
    /\ lineAt = 0
    /\ headerIndices = <<>>
    /\ headerIdx = 0
    /\ rowLog = <<>>
    /\ pdfLiens = <<>>
    /\ currentRecord = <<>>
    /\ seenParcelIds = {}

\* lines 546-590: the loop that fills headerIndices
DocFindHeaders ==
    /\ docPc = "start"
    /\ headerIndices' = FindHeaders(docLines)
    /\ docPc' = IF FindHeaders(docLines) # <<>> THEN "section" ELSE "scan"
    /\ UNCHANGED <<docLines, lineAt, headerIdx, rowLog, pdfLiens, currentRecord,
                   seenParcelIds>>
    /\ UNCHANGED outsideDoc

\* lines 596-660: section headerIdx opens
DocSectionOpen ==
    /\ docPc = "section"
    /\ lineAt' = LET headerIndex == headerIndices[headerIdx + 1]
                     limit == IF headerIndex + 10 < NextHeaderIndex THEN headerIndex + 10
                              ELSE NextHeaderIndex
                 IN StartIndexFrom(docLines, headerIndex + 1, limit, headerIndex + 1)
    /\ docPc' = "rows"
    /\ UNCHANGED <<docLines, headerIndices, headerIdx, rowLog, pdfLiens, currentRecord,
                   seenParcelIds>>
    /\ UNCHANGED outsideDoc

\* lines 662-698: one line of the section is skipped or given to the row parser
DocRow ==
    /\ docPc = "rows"
    /\ lineAt < NextHeaderIndex
    /\ LET push(lien) ==
               /\ rowLog' = Append(rowLog, [via |-> "section", section |-> headerIdx + 1,
                                            at |-> lineAt, text |-> LineAt(lineAt),
                                            ok |-> lien.ok])
               /\ pdfLiens' = IF lien.ok THEN Append(pdfLiens, lien.lien) ELSE pdfLiens
       IN push(FultonHeaderRow(LineAt(lineAt)))
    /\ lineAt' = lineAt + 1
    /\ UNCHANGED <<docLines, docPc, headerIndices, headerIdx, currentRecord, seenParcelIds>>
    /\ UNCHANGED outsideDoc

\* a parsePdf that scans after the sections whatever they gave
DocSectionClose_AlwaysScan ==
    /\ docPc = "rows"
    /\ lineAt >= NextHeaderIndex
    /\ headerIdx' = headerIdx + 1
    /\ IF headerIdx + 1 < Len(headerIndices)
       THEN docPc' = "section" /\ UNCHANGED lineAt
       ELSE docPc' = "scan" /\ lineAt' = 0
    /\ UNCHANGED <<docLines, headerIndices, rowLog, pdfLiens, currentRecord, seenParcelIds>>
    /\ UNCHANGED outsideDoc

\* the section ends at the next header; after the last section, line 703:
\* if (liens.length === 0 || headerIndices.length === 0) the scan follows
DocSectionClose ==
    /\ docPc = "rows"
    /\ lineAt >= NextHeaderIndex
    /\ headerIdx' = headerIdx + 1
    /\ IF headerIdx + 1 < Len(headerIndices)
       THEN docPc' = "section" /\ UNCHANGED lineAt
       ELSE /\ docPc' = IF pdfLiens = <<>> THEN "scan" ELSE "return"
            /\ lineAt' = 0
    /\ UNCHANGED <<docLines, headerIndices, rowLog, pdfLiens, currentRecord, seenParcelIds>>
    /\ UNCHANGED outsideDoc

\* lines 714-818: one line of the scan.  buffered is what the row parser made
\* of the accumulated record, parsed what the parsers made of the line.
ScanStep(line, skip, saleNumber, parcelLike, buffered, parsed) ==
    LET flush == Trim(currentRecord) # <<>> /\ (skip \/ saleNumber \/ parcelLike)
        keepBuffered == flush /\ buffered.ok /\ buffered.lien.parcel_id \notin seenParcelIds
        seenThen == IF keepBuffered THEN seenParcelIds \cup {buffered.lien.parcel_id}
                    ELSE seenParcelIds
        liensThen == IF keepBuffered THEN Append(pdfLiens, buffered.lien) ELSE pdfLiens
        logThen == IF flush
                   THEN Append(rowLog, [via |-> "buffer", section |-> 0, at |-> lineAt,
                                        text |-> Trim(currentRecord), ok |-> buffered.ok])
                   ELSE rowLog
        direct == ~skip /\ ~saleNumber /\ parcelLike
        keepParsed == direct /\ parsed.ok /\ parsed.lien.parcel_id \notin seenThen
    IN /\ pdfLiens' = IF keepParsed THEN Append(liensThen, parsed.lien) ELSE liensThen
       /\ seenParcelIds' = IF keepParsed THEN seenThen \cup {parsed.lien.parcel_id}
                           ELSE seenThen
       /\ rowLog' = IF direct
                    THEN Append(logThen, [via |-> "line", section |-> 0, at |-> lineAt,
                                          text |-> line, ok |-> parsed.ok])
                    ELSE logThen
       /\ currentRecord' =
             IF skip THEN (IF flush THEN <<>> ELSE currentRecord)
             ELSE IF saleNumber THEN line
             ELSE IF parcelLike THEN (IF keepParsed THEN <<>> ELSE line)
             ELSE IF currentRecord # <<>> THEN currentRecord \o <<" ">> \o line
             ELSE currentRecord

DocScanLine ==
    /\ docPc = "scan"
    /\ lineAt < Len(docLines)
    /\ LET line == LineAt(lineAt)
           lower == ToLowerCase(line)
           skip == \/ Includes(lower, Chars("judicial"))
                   \/ Includes(lower, Chars("sheriff's"))
                   \/ Test(<<Bol, AtLeast(D, 1), Ws1, LitI("OF"), Ws1, AtLeast(D, 1), Eol>>,
                           line)
           saleNumber == Test(<<Bol, Rep(D, 4, 4), Lit("-"), Rep(D, 5, 5), Ws1>>, line)
           parcelLike == looksLikeParcelId(line)
           orParcelOnly(lien) == IF lien.ok THEN lien ELSE parseParcelOnlyLine(Trim(line))
       IN ScanStep(line, skip, saleNumber, parcelLike,
                   IF Trim(currentRecord) # <<>> /\ (skip \/ saleNumber \/ parcelLike)
                   THEN parseFultonTableRow(Trim(currentRecord)) ELSE Dropped,
                   IF ~skip /\ ~saleNumber /\ parcelLike
                   THEN orParcelOnly(parseFultonTableRow(Trim(line))) ELSE Dropped)
    /\ lineAt' = lineAt + 1
    /\ UNCHANGED <<docLines, docPc, headerIndices, headerIdx>>
    /\ UNCHANGED outsideDoc

\* line 822: return liens
DocReturn ==
    /\ \/ docPc = "return"
       \/ docPc = "scan" /\ lineAt >= Len(docLines)
    /\ docPc' = "done"
    /\ UNCHANGED <<docLines, lineAt, headerIndices, headerIdx, rowLog, pdfLiens,
                   currentRecord, seenParcelIds>>
    /\ UNCHANGED outsideDoc

DocNext ==
    \/ DocFindHeaders
    \/ DocSectionOpen
    \/ DocRow
    \/ DocSectionClose
    \/ DocScanLine
    \/ DocReturn

(***************************************************************************)
(* Specifications                                                          *)
(***************************************************************************)
ExtractParked ==
    /\ source = "none"
    /\ rowsIn = <<>>
    /\ rowsOut = <<>>
    /\ extractPc = "idle"

SvcParked ==
    /\ svcPc = "idle"
    /\ svcAt = 0
    /\ scraping = {}
    /\ attempted = <<>>
    /\ results = <<>>
    /\ svcResult = "none"

TextParked ==
    /\ fn = "none"
    /\ arg = <<>>
    /\ returned = <<>>

DocParked ==
    /\ docLines = <<>>
    /\ docPc = "idle"
    /\ lineAt = 0
    /\ headerIndices = <<>>
    /\ headerIdx = 0
    /\ rowLog = <<>>
    /\ pdfLiens = <<>>
    /\ currentRecord = <<>>
    /\ seenParcelIds = {}

PdfInit == PdfFresh /\ RunParked /\ ExtractParked /\ SvcParked /\ TextParked /\ DocParked
SaveInit == SaveFresh /\ PdfParked /\ ExtractParked /\ SvcParked /\ TextParked /\ DocParked
RunInit == RunFresh /\ PdfParked /\ ExtractParked /\ SvcParked /\ TextParked /\ DocParked
ExtractInit == ExtractFresh /\ PdfParked /\ RunParked /\ SvcParked /\ TextParked /\ DocParked
SvcInit == SvcFresh /\ PdfParked /\ RunParked /\ ExtractParked /\ TextParked /\ DocParked
TextInit == TextFresh /\ PdfParked /\ RunParked /\ ExtractParked /\ SvcParked /\ DocParked
DocInit == DocFresh /\ PdfParked /\ RunParked /\ ExtractParked /\ SvcParked /\ TextParked

SpecPdf == PdfInit /\ [][PdfNext]_vars
SpecRun == RunInit /\ [][RunNext]_vars
SpecSave == SaveInit /\ [][SaveNext]_vars
SpecSvc == SvcInit /\ [][SvcNext]_vars
SpecText == TextInit /\ [][TextNext]_vars
SpecDoc == DocInit /\ [][DocNext]_vars
SpecExtract == ExtractInit /\ [][ExtractNext]_vars


(***************************************************************************)
(* Properties of parsePdf                                                  *)
(***************************************************************************)
\* m contains part as a contiguous run
Carries(m, part) ==
    \E i \in 0..(Len(m) - Len(part)) : SubSeq(m, i + 1, i + Len(part)) = part

RestrictedRuntime == env.VERCEL = "1" \/ env.AWS_LAMBDA_FUNCTION_NAME = "1"

\* C1: the tiers are attempted in the fixed order pdf2json, pdf-parse, OCR; a
\* tier is attempted only after every earlier tier was attempted and failed,
\* and after a tier succeeds no later tier is attempted.
C1_TierOrder ==
    /\ Len(attempts) <= Len(Tiers)
    /\ \A i \in 1..Len(attempts) :
          /\ attempts[i] = Tiers[i]
          /\ \A j \in 1..(i - 1) : ~tierResult[attempts[j]].ok
          /\ tierResult[attempts[i]].ok => i = Len(attempts)
    /\ \A t \in Range(Tiers) \ Range(attempts) : tierInput[t] = NoInput

C1_Witness ==
    /\ attempts = Tiers
    /\ pdfResult.status = "returned"
    /\ tierInput["pdf2json"].kind = "dataReady"

\* C2: whenever parsePdf returns normally the returned text is non-empty, and
\* a tier whose extracted text has zero length is rejected, never resolved.
C2_NonEmptyOnSuccess ==
    /\ pdfResult.status = "returned" =>
          /\ Len(pdfResult.text) > 0
          /\ attempts # <<>>
          /\ pdfResult.text = tierResult[attempts[Len(attempts)]].text
    /\ \A t \in Range(attempts) : tierResult[t].ok => Len(tierResult[t].text) > 0
    /\ ("pdf-parse" \in Range(attempts) /\ tierInput["pdf-parse"].kind = "result"
            /\ tierInput["pdf-parse"].text = <<>>) => ~tierResult["pdf-parse"].ok
    /\ ("ocr" \in Range(attempts) /\ tierInput["ocr"].kind = "recognized"
            /\ tierInput["ocr"].pages \in {<<>>, <<<<>>>>}) => ~tierResult["ocr"].ok

C2_Witness ==
    /\ pdfResult.status = "returned"
    /\ attempts = Tiers
    /\ tierInput["pdf-parse"].kind = "result"
    /\ tierInput["pdf-parse"].text = <<>>

\* C3: in a restricted runtime the OCR tier is never invoked, and when tiers 1
\* and 2 have both failed parsePdf throws an error saying that OCR is not
\* available in that environment.
C3_NoOcrWhenServerless ==
    RestrictedRuntime =>
        /\ "ocr" \notin Range(attempts)
        /\ pdfPc # "try_ocr"
        /\ (pdfPc = "done" /\ Len(attempts) = 2 /\ ~tierResult["pdf-parse"].ok) =>
              /\ pdfResult.status = "threw"
              /\ Carries(pdfResult.message,
                         <<". OCR not available in serverless environment.">>)

C3_Witness ==
    /\ env.VERCEL = "undefined"
    /\ env.AWS_LAMBDA_FUNCTION_NAME = "1"
    /\ pdfPc = "done"
    /\ attempts = <<"pdf2json", "pdf-parse">>
    /\ pdfResult.status = "threw"

\* C4: when every applicable tier has failed, the error thrown by parsePdf
\* carries the error message of each tier that was attempted.
C4_AllTierMessagesCarried ==
    pdfResult.status = "threw" =>
        \A t \in Range(attempts) : Carries(pdfResult.message, tierResult[t].message)

(***************************************************************************)
(* Properties of a scraper run                                             *)
(***************************************************************************)
RECURSIVE ConcatRows(_)
ConcatRows(log) ==
    IF log = <<>> THEN <<>> ELSE Head(log).rows \o ConcatRows(Tail(log))

\* errors that reject scrape(): the page request and saveToDatabase
RunFailureCauses ==
    {"page request failed", "scrape log insert failed", "scrape log update failed",
     "TypeError: Cannot read properties of null", "upsert request rejected"}

\* C5: in a multi-PDF run a document that fails (download error or extraction
\* failure) contributes no records, the documents after it are still
\* processed, the records of the other documents are kept, and the failure of
\* a document never makes the run fail.
C5_FailedDocumentSkipped ==
    /\ \A i \in 1..Len(docLog) : docLog[i].outcome # "parsed" => docLog[i].rows = <<>>
    /\ runPc # "docs" => docsLeft = 0
    /\ Len(ConcatRows(docLog)) <= Len(liens)
    /\ SubSeq(liens, 1, Len(ConcatRows(docLog))) = ConcatRows(docLog)
    /\ docLog # <<>> => scraper.county \in MultiPdf
    /\ runResult.status = "rejected" =>
          runResult.message[Len(runResult.message)] \in RunFailureCauses
    /\ (runPc = "done" /\ runResult.status = "resolved" /\ ~filterEnabled) =>
          validLiens = liens

C5_Witness ==
    /\ runPc = "done"
    /\ runResult.status = "resolved"
    /\ Len(docLog) = 2
    /\ docLog[1].outcome = "extractionFailed"
    /\ docLog[2].outcome = "parsed"
    /\ docLog[2].rows # <<>>
    /\ validLiens = docLog[2].rows
    /\ logData # 0
    /\ scrape_logs[logData].status = "completed"

StageRank(st) ==
    CASE st = "Fetch" -> 1 [] st = "Extract" -> 2 [] st = "Filter" -> 3
      [] st = "Persist" -> 4 [] st = "Enrich" -> 5

\* C6: the stages of a run are entered in the order Fetch, Extract, Filter,
\* Persist, Enrich, none twice; Persist is entered only when every document is
\* extracted and every record has been looked up by the filter; Enrich is
\* entered only after saveToDatabase returned normally.
C6_StageOrder ==
    /\ \A i, j \in 1..Len(stages) : i < j => StageRank(stages[i]) < StageRank(stages[j])
    /\ "Persist" \in Range(stages) =>
          /\ "Extract" \in Range(stages)
          /\ docsLeft = 0
          /\ runPc \notin {"idle", "fetch", "docs", "extract_html", "filter"}
          /\ "Filter" \in Range(stages) => Len(lookups) = Len(liens)
          /\ filterEnabled /\ scraper.county # "DeKalb" => "Filter" \in Range(stages)
    /\ "Enrich" \in Range(stages) =>
          /\ "Persist" \in Range(stages)
          /\ saveOutcome.status = "returned"
          /\ \A u \in CurrentUpserts : u.state # "pending"

C6_Witness ==
    /\ stages = <<"Fetch", "Extract", "Filter", "Persist", "Enrich">>
    /\ runPc = "done"
    /\ runResult.status = "resolved"
    /\ Len(liens) = 2

\* the filter of this run was applied
Filtered == "Filter" \in Range(stages)

\* C7: with filtering enabled, in every scraper a record is handed to Persist
\* only if its lookup returned isValid = true; a record whose lookup returned a
\* zero improvement value, or no result, is excluded.
C7_OnlyValidPersisted ==
    Filtered =>
        /\ \A k \in 1..Len(keptIdx) :
              /\ ~lookups[keptIdx[k]].isNull
              /\ lookups[keptIdx[k]].isValid
        /\ \A u \in CurrentUpserts :
              \E i \in 1..Len(lookups) :
                  /\ UpsertRow(liens[i], runs) = u.row
                  /\ ~lookups[i].isNull
                  /\ lookups[i].isValid

\* C8: if the upsert of any record of the run failed, saveToDatabase throws,
\* scrape() rejects and the run's scrape log ends 'failed', never 'completed'.
C8_UpsertFailureSurfaced ==
    (/\ saveOutcome.status # "none"
     /\ \E u \in CurrentUpserts : u.state \in {"error", "rejected"}) =>
        /\ saveOutcome.status = "threw"
        /\ runPc = "done" => runResult.status = "rejected"
        /\ logData # 0 =>
              /\ scrape_logs[logData].status = "failed"
              /\ scrape_logs[logData].error_message # <<>>

(***************************************************************************)
(* Properties of the tax_liens store                                       *)
(***************************************************************************)
Key(row) == <<row.county_id, row.parcel_id>>
Keys(table) == {Key(table[i]) : i \in 1..Len(table)}
UniqueKeys(table) ==
    \A i, j \in 1..Len(table) : SameKey(table[i], table[j]) => i = j

BlankParcel(r) == Trim(r.parcel) = <<>>
\* every record an extractor emits has a parcel id
EmittedHaveParcelId ==
    \A k \in 1..Len(rowsOut) : rowsOut[k].ok => rowsOut[k].lien.parcel_id # <<>>
\* rows that show no parcel id give no record
BlankParcelDropped ==
    (\A k \in 1..Len(rowsIn) : BlankParcel(rowsIn[k]))
        => \A k \in 1..Len(rowsOut) : ~rowsOut[k].ok

\* C10: every record an extractor emits has a non-empty parcel_id, and a row
\* whose parcel id is empty or missing is dropped (the extractor returns
\* nothing for it, without an error), whatever its other fields hold.
C10_ParcelIdRequired ==
    extractPc = "done" => EmittedHaveParcelId /\ BlankParcelDropped

(***************************************************************************)
(* Properties of the Fulton row reconstruction                             *)
(***************************************************************************)
FultonSources == {"Fulton header", "Fulton scan", "Fulton manual"}

\* C11: every record the Fulton row reconstruction emits (rows below a header,
\* rows of the pattern scan, parcel-only rows, pasted rows) has a
\* property_address of at least 3 characters; a row whose address is empty or
\* shorter is discarded.
C11_AddressAtLeastThree ==
    (extractPc = "done" /\ source \in FultonSources) =>
        \A k \in 1..Len(rowsOut) :
            rowsOut[k].ok => Len(rowsOut[k].lien.property_address) >= 3

(***************************************************************************)
(* Properties of the scheduling of one scrape()                            *)
(***************************************************************************)
IssuedAt(i, kinds) == calls[i].ev = "issued" /\ calls[i].of \in kinds

\* C12: between two successive per-record enrichment calls of one run, in the
\* validation loop before the save and in the enrichment loop after it alike,
\* the fixed delay step occurs: no two calls of a loop are issued back to back.
C12_DelayBetweenEnrichmentCalls ==
    \A i, j \in 1..Len(calls) :
        (i < j /\ IssuedAt(i, EnrichmentCalls) /\ IssuedAt(j, {calls[i].of}))
            => \E k \in (i + 1)..(j - 1) : calls[k] = DelayStep

\* C13: within one scraper run at most one enrichment call and at most one PDF
\* extraction is in flight at any moment; a call is issued only after the one
\* before it has settled.
C13_OneCallInFlight ==
    /\ InFlight(EnrichmentCalls) <= 1
    /\ InFlight({"parsePdf"}) <= 1

\* a second lookup is in flight after two documents were extracted one by one
C13_Witness ==
    /\ InFlight({"enrichPropertyByParcel"}) = 1
    /\ Len(lookups) = 1
    /\ Cardinality({i \in 1..Len(calls) : calls[i] = Settled("parsePdf")}) = 2

(***************************************************************************)
(* Properties of scrapeAllCounties                                         *)
(***************************************************************************)
\* C14: scrapeAllCounties runs the scrapers one after another, never two at a
\* time, calls each configured scraper exactly once, records a scraper whose
\* scrape() rejects as failed, goes on with the scrapers after it, and does
\* not itself throw.
C14_SequentialAllAttempted ==
    /\ Cardinality(scraping) <= 1
    /\ Len(attempted) <= Len(Scrapers)
    /\ \A i \in 1..Len(attempted) : attempted[i].county = Scrapers[i]
    /\ \A i \in 1..Len(results) :
          /\ results[i].county = attempted[i].county
          /\ results[i].success <=> attempted[i].settled = "resolved"
          /\ ~results[i].success => results[i].error # <<>>
    /\ svcPc \in {"timestamps", "done"} =>
          Len(attempted) = Len(Scrapers) /\ Len(results) = Len(Scrapers)
    /\ svcResult # "rejected"

\* the first scraper failed, the last one was scraped, and the call returned
C14_Witness ==
    /\ svcPc = "done"
    /\ svcResult = "resolved"
    /\ ~results[1].success
    /\ results[Len(Scrapers)].success

(***************************************************************************)
(* Properties of the text normalisers                                      *)
(***************************************************************************)
\* C15: OCR cleanup is idempotent: cleanOcrText applied to its own result
\* returns that result.
C15_CleanOcrIdempotent ==
    (fn = "cleanOcrText" /\ Len(returned) = 2) => returned[2] = returned[1]

\* the characters of a text that are neither white space nor control
\* characters, with their positions in the text
Visible(text) ==
    SelectSeq([i \in 1..Len(text) |-> [at |-> i, ch |-> text[i]]],
              LAMBDA c : c.ch \notin Space \cup Control)
BetweenDigits(text, i) ==
    i > 1 /\ i < Len(text) /\ text[i - 1] \in Digit /\ text[i + 1] \in Digit
LookAlike(c) == CASE c = "O" -> "0" [] c \in {"l", "I"} -> "1" [] OTHER -> c
\* a letter is rewritten only between two digits, the others are kept
LettersKept(text, out) ==
    LET kept(from, to) ==
            /\ Len(from) = Len(to)
            /\ \A k \in 1..Len(from) :
                  \/ to[k].ch = from[k].ch
                  \/ /\ from[k].ch \in {"O", "l", "I"}
                     /\ to[k].ch = LookAlike(from[k].ch)
                     /\ BetweenDigits(text, from[k].at)
    IN kept(Visible(text), Visible(out))
\* every run of white space other than line ends is one space
SingleSpaces(out) ==
    \A i \in 1..Len(out) :
        out[i] \in Space \ {"\n"} =>
            out[i] = " " /\ (i < Len(out) => out[i + 1] \notin Space \ {"\n"})
NoControl(out) == \A i \in 1..Len(out) : out[i] \notin Control

\* C16: cleanOcrText rewrites a letter O, l or I to a digit only where the
\* letter stands immediately between two digits and leaves every other letter
\* unchanged; in its output every run of white space other than line ends is
\* a single space and no control character remains.
C16_CleanOcrOutput ==
    (fn = "cleanOcrText" /\ returned # <<>>) =>
        /\ LettersKept(arg, returned[1])
        /\ SingleSpaces(returned[1])
        /\ NoControl(returned[1])

\* the canonical form of an identifier: its segments joined by single dashes
Canonical(id) == Join(Split(<<AtLeast(Dash, 1)>>, id), <<"-">>)

\* C17: identifier normalisation maps every white space / dash variation of
\* an identifier to its canonical form, which holds no white space and no two
\* adjacent dashes, and is idempotent.
C17_CanonicalParcelId ==
    fn = "normalizeParcelId" =>
        /\ returned # <<>> =>
              /\ returned[1] = Canonical(arg)
              /\ \A i \in 1..Len(returned[1]) : returned[1][i] \notin Space
              /\ ~Includes(returned[1], <<"-", "-">>)
        /\ Len(returned) = 2 => returned[2] = returned[1]

\* "14  0184  0008  002  7" was normalised, and normalised again
C17_Witness ==
    /\ fn = "normalizeParcelId"
    /\ arg = Chars("14  0184  0008  002  7")
    /\ returned = <<Chars("14-0184-0008-002-7"), Chars("14-0184-0008-002-7")>>

\* C20: parseCurrency is total: for every string it returns a number that is
\* not negative, and 0 when the string cannot be parsed.
C20_CurrencyNonNegative ==
    (fn = "parseCurrency" /\ returned # <<>>) =>
        /\ ~returned[1].nan
        /\ ~IsNegative(returned[1])
        /\ parseFloat(SelectSeq(arg, LAMBDA c : c \notin {"$", ","} \cup Space)).nan
              => IsZero(returned[1])

\* the lines that hold the table header, and the line where segment k ends
TrueHeaders == {i \in 0..(Len(docLines) - 1) : LineAt(i) = HeaderText}
SegmentEnd(k) == IF k < Len(headerIndices) THEN headerIndices[k + 1] ELSE Len(docLines)
SectionEntries == {e \in 1..Len(rowLog) : rowLog[e].via = "section"}

C19_NoRecordLeftUnparsed == docPc = "done" => Trim(currentRecord) = <<>>

(***************************************************************************)
(* Properties of the end-to-end scenarios                                  *)
(***************************************************************************)
\* the records a page or document gave, in order
RecordsOut == [k \in 1..Len(SelectSeq(rowsOut, LAMBDA r : r.ok)) |->
                  SelectSeq(rowsOut, LAMBDA r : r.ok)[k].lien]
ScenarioPage(address) ==
    <<CobbHeaderRow, Row("", "", "12-345", "J Smith", address, "$1,250.00")>>
ScenarioRecord ==
    [parcel_id |-> Chars("12-345"), owner_name |-> Chars("J Smith"),
     property_address |-> Chars("100 Main St"), city |-> Chars("Atlanta"),
     zip |-> Chars("30303"),
     tax_amount_due |-> [nan |-> FALSE, neg |-> FALSE, int |-> Chars("1250"),
                         frac |-> Chars("00")]]

\* C21: the page whose table has the header row Parcel, Owner, Address, Tax Due
\* and the one data row 12-345, J Smith, 100 Main St Atlanta 30303, $1,250.00
\* gives exactly one record: parcel_id "12-345", owner_name "J Smith",
\* property_address "100 Main St", city "Atlanta", zip "30303" and
\* tax_amount_due 1250.00.
C21_HtmlScenario ==
    (extractPc = "done" /\ source = "Cobb page"
        /\ rowsIn = ScenarioPage("100 Main St Atlanta 30303"))
        => RecordsOut = <<ScenarioRecord>>

\* C22: the text "14-0184-0008-002-7 0 BOULEVARD GRANADA SW", which has no
\* header, gives by the pattern scan exactly one record, with parcel_id
\* "14-0184-0008-002-7" and property_address "0 BOULEVARD GRANADA SW".
C22_PdfScenario ==
    (docPc = "done" /\ docLines = <<BlobText>>) =>
        /\ Len(pdfLiens) = 1
        /\ pdfLiens[1].parcel_id = Chars("14-0184-0008-002-7")
        /\ pdfLiens[1].property_address = Chars("0 BOULEVARD GRANADA SW")

(***************************************************************************)
(* Properties of FultonScraper.parsePdf on a document                      *)
(***************************************************************************)
\* the records the rows below the headers gave, the texts the scan parsed
HeaderRecords == Cardinality({e \in SectionEntries : rowLog[e].ok})
ScanEntries == {e \in 1..Len(rowLog) : rowLog[e].via \in {"buffer", "line"}}

SectionsDone == docPc = "return" \/ (docPc = "scan" /\ lineAt = 0 /\ headerIndices # <<>>)

\* C24: of the lines between a header and the next header, every line that
\* the row parser turns into a valid record is parsed, and its record is in
\* the output: only title, separator, repeated-header and pagination lines
\* are passed over.
C24_NoValidRowSkipped ==
    SectionsDone =>
        \A k \in 1..Len(headerIndices) :
            \A i \in (headerIndices[k] + 1)..(SegmentEnd(k) - 1) :
                LET kept(lien) ==
                        lien.ok =>
                            /\ \E e \in SectionEntries : rowLog[e].at = i /\ rowLog[e].ok
                            /\ \E n \in 1..Len(pdfLiens) : pdfLiens[n] = lien.lien
                IN kept(parseFultonTableRow(LineAt(i)))

(***************************************************************************)
(* Properties of the validity filter                                       *)
(***************************************************************************)
\* C25: enrichAndFilterLiens returns an order-preserving subsequence of its
\* input and never modifies a record: while it runs the input list stays as
\* it is, and the list it builds holds, in the order of the input, input
\* records with every field unchanged.
C25_FilterKeepsRecords ==
    [][runPc = "filter" =>
          /\ liens' = liens
          /\ Len(validLiens') = Len(keptIdx')
          /\ \A k \in 1..Len(keptIdx') :
                /\ keptIdx'[k] \in 1..Len(liens)
                /\ validLiens'[k] = liens[keptIdx'[k]]
          /\ \A j, k \in 1..Len(keptIdx') : j < k => keptIdx'[j] < keptIdx'[k]]_vars

\* the filter returned after dropping the first of two records and keeping
\* the second
C25_Witness ==
    /\ runPc = "persist"
    /\ Filtered
    /\ Len(liens) = 2
    /\ keptIdx = <<2>>
    /\ validLiens = <<liens[2]>>

(***************************************************************************)
(* Properties of the scrape log                                            *)
(***************************************************************************)
\* the logs of the calls of saveToDatabase that have finished
FinishedLogs ==
    {i \in 1..Len(scrape_logs) : i # logData \/ saveOutcome.status # "none"}

\* a log is created 'running', and a log that changes its status leaves
\* 'running' for 'completed' or 'failed'
LogStepsForward ==
    [][\A i \in 1..Len(scrape_logs') :
          IF i > Len(scrape_logs) THEN scrape_logs'[i].status = "running"
          ELSE scrape_logs'[i].status # scrape_logs[i].status =>
                   /\ scrape_logs[i].status = "running"
                   /\ scrape_logs'[i].status \in {"completed", "failed"}]_vars

\* C26: the scrape log of a saveToDatabase that has finished is 'completed'
\* when it returned and 'failed' with an error message when it threw; no log
\* of a finished saveToDatabase is left 'running'.
C26_ScrapeLogLifecycle ==
    /\ \A i \in FinishedLogs : scrape_logs[i].status # "running"
    /\ (saveOutcome.status # "none" /\ logData # 0) =>
           IF saveOutcome.status = "returned"
           THEN scrape_logs[logData].status = "completed"
           ELSE /\ scrape_logs[logData].status = "failed"
                /\ scrape_logs[logData].error_message # <<>>

(***************************************************************************)
(* Properties of the records handed to Persist                             *)
(***************************************************************************)
\* C27: in a run of the Fulton scraper the list handed to saveToDatabase
\* holds no two records with the same parcel_id, so no two of the upserts
\* that are in flight together write the same (county_id, parcel_id) key.
C27_NoDuplicateParcelPersisted ==
    (scraper.county = "Fulton" /\ "Persist" \in Range(stages)) =>
        /\ \A i, j \in 1..Len(validLiens) :
              validLiens[i].parcel_id = validLiens[j].parcel_id => i = j
        /\ \A u, v \in CurrentUpserts : SameKey(u.row, v.row) => u.i = v.i

(***************************************************************************)
(* Properties of the Fulton identifier patterns                            *)
(***************************************************************************)
\* C28: detection and validation agree: an identifier that looksLikeParcelId
\* recognises is extracted by a parser, and an identifier that the pattern
\* of a parser extracts passes, once normalised, the shape check of that
\* parser.
C28_DetectionAgreesWithValidation ==
    (fn = "parcelIdShape" /\ returned # <<>>) =>
        /\ returned[1].looksLikeParcelId =>
              (returned[1].tableRow.found \/ returned[1].parcelOnly.found)
        /\ returned[1].tableRow.found => returned[1].tableRow.valid
        /\ returned[1].parcelOnly.found => returned[1].parcelOnly.valid

(***************************************************************************)
(* Properties of a scraper without its enrichment service                  *)
(***************************************************************************)
\* the scraper was created with enrichment asked for and the service's
\* constructor threw
ServiceFailed == \E c \in Counties : scraper = Constructor(c, TRUE, FALSE)

\* C29: a scraper whose enrichment service could not be constructed has
\* enrichment disabled: its run has no Filter and no Enrich stage, it issues
\* no enrichment call, and the list it hands to Persist is the list of the
\* extracted records.
C29_FailedServiceDisablesEnrichment ==
    ServiceFailed =>
        /\ ~scraper.enableEnrichment
        /\ "Filter" \notin Range(stages)
        /\ "Enrich" \notin Range(stages)
        /\ \A i \in 1..Len(calls) : calls[i].of \notin EnrichmentCalls
        /\ lookups = <<>>
        /\ enrichQueue = <<>>
        /\ "Persist" \in Range(stages) => validLiens = liens

\* such a scraper ran to its end and saved the two records it extracted
C29_Witness ==
    /\ scraper = Constructor("Fulton", TRUE, FALSE)
    /\ runPc = "done"
    /\ runResult.status = "resolved"
    /\ stages = <<"Fetch", "Extract", "Persist">>
    /\ Len(liens) = 2
    /\ validLiens = liens

(***************************************************************************)
(* Properties of the pdf2json tier's text                                  *)
(***************************************************************************)
\* the text the pdf2json tier resolved with
Tier1Text == tierResult["pdf2json"].text

====
